---- MODULE Spec2Model ----
(***************************************************************************)
(* Mesh-Trace node 1 (crash detection unit): the impact correlator         *)
(* (sensors/impact_sensor.py), the MQTT publisher (cloud/mqtt_client.py),  *)
(* the blackbox logger (storage/blackbox_logger.py), the crash handler and *)
(* the sampling loop with its pre-crash buffer (main.py) as state machines.*)
(*                                                                         *)
(* Times of the impact correlator are integers in units of 25 ms, so that  *)
(* the default debounce (0.05 s), correlation window (0.2 s) and cooldown  *)
(* (1.0 s) are 2, 8 and 40.  Sleeps of the publisher are in seconds.       *)
(***************************************************************************)
EXTENDS Integers, Sequences, FiniteSets, TLC

VARIABLES
    \* ---- ImpactSensor (sensors/impact_sensor.py)
    clock,                  \* time.time(), in 25 ms units
    gpio_initialized,       \* ImpactSensor.gpio_initialized
    sb420_triggers,         \* deque(maxlen=10) of <<timestamp, sensor_id>>
    last_impact_time,       \* timestamp of the last confirmed impact
    last_sb420_read_time,   \* pin -> time of its last accepted trigger
    nCalls,                 \* number of detect_impact calls made so far
    lastCall,               \* arguments and outcome of the last detect_impact call
    confirmedTimes,         \* timestamps of the calls that returned True
    \* ---- AWSIoTPublisher (cloud/mqtt_client.py)
    connected,              \* AWSIoTPublisher.connected, written by the callbacks
    clientConnected,        \* what client.is_connected() returns (paho's own state)
    pubPc,                  \* where safe_publish stands
    attempt,                \* the loop variable of safe_publish
    pubResult,              \* what safe_publish returned: "none", "true", "false"
    pubRaised,              \* an exception left safe_publish
    pubTrace,               \* what the running safe_publish call did, in order
    \* ---- BlackboxLogger (storage/blackbox_logger.py): the files of log_path
    current_log,            \* blackbox_current.jsonl: [exists, recs]
    crash_log,              \* crash_events.jsonl: its records, in order
    archives,               \* blackbox_archive_<timestamp>.jsonl.gz: {[name, recs, complete]}
    logSecond,              \* datetime.now() to the second, as the archive name shows it
    logPc,                  \* where the running log / log_crash call stands
    logCall,                \* the running (or last) log / log_crash call and what it did
    nLogs,                  \* log / log_crash calls so far; the id of the record
    \* ---- CrashDetectionUnit.handle_crash (main.py)
    crashPc,                \* where handle_crash stands
    nCrashes,               \* handle_crash calls so far; the running call's crash id
    payloadOk,              \* json.dumps accepts the running call's crash_payload
    crashTrace,             \* what the running handle_crash call did, in order
    crash_payload,          \* the crash_payload dict handle_crash built last
    loraHanded,             \* what the running call handed to lora_tx.send_payload
    \* ---- CrashDetectionUnit.run (main.py): the sampling loop
    data_buffer,            \* deque(maxlen=buffer_size) of the frames read
    nSamples,               \* ticks so far; the id of the frame read last
    runPc,                  \* where the loop of run stands
    last_known_gps,         \* self.last_known_gps
    frameGps,               \* by frame id: what get_position returned for the frame
                            \* (raw) and the frame's "gps" entry (gps)
    tickTrace,              \* what the running tick did, in order, and the signal
                            \* that ended it
    tickFail,               \* the step of blackbox.log that failed in the running tick
    blackboxClosed,         \* cleanup has called self.blackbox.close()
    \* ---- security/encryption.py
    codecPc,                \* where the use of the codec stands
    keyFile,                \* the key file: whether it exists, its key, who wrote it
    manager,                \* the global _encryption_manager: its key, 0 while None
    codecCall,              \* the encrypt_data and decrypt_data calls made, as a record
    \* ---- CrashDetectionUnit.detect_crash (main.py)
    detectCall              \* the last detect_crash call: its inputs and what it returned

impactVars == <<clock, gpio_initialized, sb420_triggers, last_impact_time,
                last_sb420_read_time, nCalls, lastCall, confirmedTimes>>

pubVars == <<connected, clientConnected, pubPc, attempt, pubResult, pubRaised,
             pubTrace>>

logVars == <<current_log, crash_log, archives, logSecond, logPc, logCall, nLogs>>

crashVars == <<crashPc, nCrashes, payloadOk, crashTrace, crash_payload, loraHanded>>

runVars == <<data_buffer, nSamples, runPc, last_known_gps, frameGps, tickTrace, tickFail,
             blackboxClosed>>

codecVars == <<codecPc, keyFile, manager, codecCall>>

vars == <<impactVars, pubVars, logVars, crashVars, runVars, codecVars, detectCall>>

----------------------------------------------------------------------------
\* Bounds of the model

\* detect_impact calls per behaviour
MaxCalls == 3

\* bits of a byte of a payload, a key stream or a token
ByteBits == 2

\* bytes of the longest payload handed to encrypt_data
MaxPayloadLen == 1

\* the keys are 1..MaxKey
MaxKey == 2

\* bytes of a cipher block
BlockSize == 2

\* the greatest acceleration magnitude of a frame, in m/s^2
MaxMagnitude == 60
\* time.time() when the unit is constructed (any value past the first cooldown)
StartTime == 100
\* detect_impact calls per behaviour when the trigger window is filled
MaxPolls == 6
\* handle_crash calls per behaviour
MaxCrashes == 2
\* seconds of wall-clock time that pass while the log is written
MaxSecond == 1
\* log and log_crash calls per behaviour when the logger is followed step by step
MaxLogs == 4
\* log calls and seconds of wall-clock time per behaviour when archives pile up
MaxRetentionLogs == 8
MaxRetentionSecond == 3

\* log and log_crash calls made when crash records and pruning are followed together
MaxAppendOnlyLogs == 6
\* BLACKBOX_MAX_SIZE_MB * 1024 * 1024, counted in records of equal size
max_size_bytes == 2
\* BLACKBOX_ROTATION_COUNT, scaled down
rotation_count == 2
\* PRE_CRASH_DURATION * SAMPLE_RATE (5 s at 100 Hz: 500 frames), scaled down
buffer_size == 2
\* ticks of the sampling loop per behaviour
MaxSamples == 3

----------------------------------------------------------------------------
\* ImpactSensor: configuration (constructor defaults, in 25 ms units)

accel_threshold == 7
correlation_window == 8
debounce_time == 2
cooldown_time == 40
TriggerWindowMax == 10

\* the GPIO pins handed to the constructor (the first two of IMPACT_SENSOR_PINS)
pins == <<18, 23>>

PinSet == {pins[i] : i \in 1..Len(pins)}

Abs(x) == IF x < 0 THEN 0 - x ELSE x

\* the append of a plain list: nothing is evicted
DequeAppendUnbounded(dq, x) == Append(dq, x)

\* deque(maxlen=TriggerWindowMax).append
DequeAppend(dq, x) ==
    IF Len(dq) >= TriggerWindowMax THEN Append(Tail(dq), x) ELSE Append(dq, x)

RECURSIVE DequeExtend(_, _)
DequeExtend(dq, xs) ==
    IF xs = << >> THEN dq ELSE DequeExtend(DequeAppend(dq, Head(xs)), Tail(xs))

\* a debounce that also skips a trigger exactly debounce_time after the last
DebouncedInclusive(current_time, last_read) == current_time - last_read <= debounce_time

\* a debounce that lets through a trigger one time unit early
DebouncedShort(current_time, last_read) == current_time - last_read < debounce_time - 1

\* the debounce test of one pin
Debounced(current_time, last_read) == current_time - last_read < debounce_time

\* _read_sb420_sensors: the loop over the pins from position idx (1-based) on.
\* reads[pin] is what GPIO.input(pin) does: "HIGH", "LOW", or "ERR" (it raises);
\* an exception ends the loop (the try encloses the whole for).  Returns the
\* triggers, the new debounce times and whether GPIO.input raised.
RECURSIVE ReadLoop(_, _, _, _, _)
ReadLoop(idx, reads, current_time, triggers, lastRead) ==
    IF idx > Len(pins)
    THEN [triggers |-> triggers, lastRead |-> lastRead, error |-> FALSE]
    ELSE LET pin == pins[idx] IN
         IF Debounced(current_time, lastRead[pin])
         THEN ReadLoop(idx + 1, reads, current_time, triggers, lastRead)
         ELSE IF reads[pin] = "ERR"
         THEN [triggers |-> triggers, lastRead |-> lastRead, error |-> TRUE]
         ELSE IF reads[pin] = "HIGH"
         THEN ReadLoop(idx + 1, reads, current_time,
                       Append(triggers, <<current_time, idx - 1>>),
                       [lastRead EXCEPT ![pin] = current_time])
         ELSE ReadLoop(idx + 1, reads, current_time, triggers, lastRead)

\* a _read_sb420_sensors without its try/except: the exception of GPIO.input
\* leaves the method
ReadSb420SensorsNoExcept(reads, current_time, initialized, lastRead) ==
    IF ~initialized THEN [triggers |-> << >>, lastRead |-> lastRead, raised |-> FALSE]
    ELSE LET loop == ReadLoop(1, reads, current_time, << >>, lastRead)
         IN [triggers |-> IF loop.error THEN << >> ELSE loop.triggers,
             lastRead |-> loop.lastRead, raised |-> loop.error]

\* _read_sb420_sensors, with time.time() = current_time: the except of lines
\* 122-123 logs the exception and the triggers collected so far are returned.
\* raised: an exception leaves the method.
ReadSb420Sensors(reads, current_time, initialized, lastRead) ==
    IF ~initialized THEN [triggers |-> << >>, lastRead |-> lastRead, raised |-> FALSE]
    ELSE LET loop == ReadLoop(1, reads, current_time, << >>, lastRead)
         IN [triggers |-> loop.triggers, lastRead |-> loop.lastRead, raised |-> FALSE]


\* a cooldown gate that compares with the wrong interval
InCooldownWrongInterval(timestamp, lastImpact) ==
    timestamp - lastImpact < correlation_window

\* the cooldown gate of detect_impact
InCooldown(timestamp, lastImpact) == timestamp - lastImpact < cooldown_time

\* the threshold test of detect_impact
AccelExceedsThreshold(accel_magnitude) == accel_magnitude >= accel_threshold


\* a window test that excludes the boundary
WithinWindowStrict(timestamp, trigger_time) ==
    Abs(timestamp - trigger_time) < correlation_window

\* the window test of one trigger
WithinWindow(timestamp, trigger_time) ==
    Abs(timestamp - trigger_time) <= correlation_window

\* the correlation loop of detect_impact: the position of the first trigger of
\* the window within the correlation window, 0 when there is none
RECURSIVE FirstMatch(_, _, _)
FirstMatch(i, timestamp, window) ==
    IF i > Len(window) THEN 0
    ELSE IF WithinWindow(timestamp, window[i][1]) THEN i
    ELSE FirstMatch(i + 1, timestamp, window)

NoCall == [made |-> FALSE]

\* a detect_impact that polls the channels and stores their triggers before it
\* looks at the cooldown
DetectImpactPollsFirst(accel_magnitude, timestamp, reads) ==
    /\ nCalls' = nCalls + 1
    /\ UNCHANGED <<clock, gpio_initialized, pubVars, codecVars, detectCall, logVars,
                   crashVars, runVars>>
    /\ LET r == ReadSb420Sensors(reads, clock, gpio_initialized, last_sb420_read_time)
           window == DequeExtend(sb420_triggers, r.triggers)
           gate == InCooldown(timestamp, last_impact_time)
           m == IF AccelExceedsThreshold(accel_magnitude) /\ ~gate
                THEN FirstMatch(1, timestamp, window) ELSE 0
       IN /\ sb420_triggers' = window
          /\ last_sb420_read_time' = r.lastRead
          /\ last_impact_time' = IF m > 0 THEN timestamp ELSE last_impact_time
          /\ confirmedTimes' = IF m > 0 THEN confirmedTimes \cup {timestamp}
                               ELSE confirmedTimes
          /\ lastCall' = [made |-> TRUE, accel |-> accel_magnitude, ts |-> timestamp,
                          gate |-> gate, polled |-> r.triggers, result |-> m > 0,
                          raised |-> FALSE,
                          prevImpact |-> last_impact_time,
                          prevConfirmed |-> confirmedTimes,
                          prevWindow |-> sb420_triggers,
                          prevRead |-> last_sb420_read_time, reads |-> reads]

\* detect_impact(accel_magnitude, timestamp) while GPIO behaves as reads.
\* detect_impact has no handler of its own: an exception that leaves the poll
\* leaves the call (lastCall.raised), before anything else is written.
DetectImpact(accel_magnitude, timestamp, reads) ==
    /\ nCalls' = nCalls + 1
    /\ UNCHANGED <<clock, gpio_initialized, pubVars, codecVars, detectCall, logVars,
                   crashVars, runVars>>
    /\ IF InCooldown(timestamp, last_impact_time)
       THEN /\ UNCHANGED <<sb420_triggers, last_impact_time, last_sb420_read_time,
                           confirmedTimes>>
            /\ lastCall' = [made |-> TRUE, accel |-> accel_magnitude, ts |-> timestamp,
                            gate |-> TRUE, polled |-> << >>, result |-> FALSE,
                            raised |-> FALSE,
                            prevImpact |-> last_impact_time,
                            prevConfirmed |-> confirmedTimes,
                            prevWindow |-> sb420_triggers,
                            prevRead |-> last_sb420_read_time, reads |-> reads]
       ELSE LET r == ReadSb420Sensors(reads, clock, gpio_initialized,
                                      last_sb420_read_time)
                window == DequeExtend(sb420_triggers, r.triggers)
                m == IF AccelExceedsThreshold(accel_magnitude) /\ ~r.raised
                     THEN FirstMatch(1, timestamp, window) ELSE 0
            IN /\ sb420_triggers' = window
               /\ last_sb420_read_time' = r.lastRead
               /\ last_impact_time' = IF m > 0 THEN timestamp ELSE last_impact_time
               /\ confirmedTimes' = IF m > 0 THEN confirmedTimes \cup {timestamp}
                                    ELSE confirmedTimes
               /\ lastCall' = [made |-> TRUE, accel |-> accel_magnitude,
                               ts |-> timestamp, gate |-> FALSE,
                               polled |-> r.triggers, result |-> m > 0,
                               raised |-> r.raised,
                               prevImpact |-> last_impact_time,
                               prevConfirmed |-> confirmedTimes,
                               prevWindow |-> sb420_triggers,
                               prevRead |-> last_sb420_read_time, reads |-> reads]

\* the time that passes between two calls of the sampling loop
Advances == {1, debounce_time, correlation_window, correlation_window + 1,
             cooldown_time - 1, cooldown_time}

\* time passing
Sleep(d) ==
    /\ lastCall.made
    /\ clock' = clock + d
    /\ lastCall' = NoCall
    /\ UNCHANGED <<gpio_initialized, sb420_triggers, last_impact_time,
                   last_sb420_read_time, nCalls, confirmedTimes, pubVars, codecVars,
                   detectCall, logVars, crashVars, runVars>>

\* ImpactSensor.__init__ (GPIO available or not)
ImpactInit ==
    /\ clock = StartTime
    /\ gpio_initialized \in BOOLEAN
    /\ sb420_triggers = << >>
    /\ last_impact_time = 0
    /\ last_sb420_read_time = [p \in PinSet |-> 0]
    /\ nCalls = 0
    /\ lastCall = NoCall
    /\ confirmedTimes = {}

\* the inputs of the correlator's specification
AccelValues == {accel_threshold - 1, accel_threshold}
Lags == {0, 1}
PinLevels == [PinSet -> {"HIGH", "LOW"}]

ImpactCall ==
    /\ nCalls < MaxCalls
    /\ \E a \in AccelValues, l \in Lags, reads \in PinLevels :
           DetectImpact(a, clock - l, reads)

ImpactSleep ==
    /\ nCalls < MaxCalls
    /\ \E d \in Advances : Sleep(d)

ImpactNext == ImpactCall \/ ImpactSleep

\* the sampling loop while the channels keep firing: a call every
\* debounce_time, long enough to fill the trigger window
WindowCall ==
    /\ nCalls < MaxPolls
    /\ \E a \in AccelValues, reads \in PinLevels : DetectImpact(a, clock, reads)

WindowSleep ==
    /\ nCalls < MaxPolls
    /\ Sleep(debounce_time)

WindowNext == WindowCall \/ WindowSleep

\* the sampling loop on failing hardware: GPIO.input may raise on any pin
FaultyLevels == [PinSet -> {"HIGH", "LOW", "ERR"}]

FaultyAdvances == {1, debounce_time, cooldown_time}

FaultyCall ==
    /\ nCalls < MaxCalls
    /\ \E a \in AccelValues, reads \in FaultyLevels : DetectImpact(a, clock, reads)

FaultySleep ==
    /\ nCalls < MaxCalls
    /\ \E d \in FaultyAdvances : Sleep(d)

FaultyNext == FaultyCall \/ FaultySleep

----------------------------------------------------------------------------
\* AWSIoTPublisher: safe_publish, step by step, and the callbacks that paho's
\* network thread runs at any moment in between

MAX_RETRIES == 3
RECONNECT_WAIT_S == 2
BACKOFF_BASE_S == 1

\* result codes of client.publish: success, and "client not connected"
ResultCodes == {0, 4}

RECURSIVE Pow2(_)
Pow2(n) == IF n <= 0 THEN 1 ELSE 2 * Pow2(n - 1)


\* a backoff whose exponent is off by one
BackoffDelayOffByOne(n) == BACKOFF_BASE_S * Pow2(n)

\* delay = BACKOFF_BASE_S * (2 ** (attempt - 1))
BackoffDelay(n) == BACKOFF_BASE_S * Pow2(n - 1)

\* one entry of a trace: what was done (ev), in which attempt or for which crash
\* (n), whether it returned normally or read True (ok; FALSE: it raised or read
\* False), the result code (rc), the seconds slept (secs) and, for a publish of
\* safe_publish, the value self.connected had at that moment (flag)
Ev(ev, n, ok, rc, secs, flag) ==
    [ev |-> ev, n |-> n, ok |-> ok, rc |-> rc, secs |-> secs, flag |-> flag]

\* AWSIoTPublisher.__init__: self.connected = False
PublisherInit ==
    /\ connected = FALSE
    /\ clientConnected = FALSE
    /\ pubPc = "idle"
    /\ attempt = 0
    /\ pubResult = "none"
    /\ pubRaised = FALSE
    /\ pubTrace = << >>

\* _on_connect(client, userdata, flags, rc)
OnConnect(rc) ==
    /\ connected' = (rc = 0)
    /\ UNCHANGED <<clientConnected, pubPc, attempt, pubResult, pubRaised, pubTrace>>
    /\ UNCHANGED <<impactVars, codecVars, detectCall, logVars, crashVars, runVars>>

\* _on_disconnect(client, userdata, rc)
OnDisconnect ==
    /\ connected' = FALSE
    /\ UNCHANGED <<clientConnected, pubPc, attempt, pubResult, pubRaised, pubTrace>>
    /\ UNCHANGED <<impactVars, codecVars, detectCall, logVars, crashVars, runVars>>

\* paho's own connection state changes (what client.is_connected() reads); paho
\* sets it before it runs the callback
TransportState(b) ==
    /\ clientConnected' = b
    /\ UNCHANGED <<connected, pubPc, attempt, pubResult, pubRaised, pubTrace>>
    /\ UNCHANGED <<impactVars, codecVars, detectCall, logVars, crashVars, runVars>>

\* safe_publish(payload): json.dumps(payload) raises or not
SafePublishCall(serialisable) ==
    /\ pubPc \in {"idle", "done"}
    /\ pubTrace' = << >>
    /\ pubRaised' = FALSE
    /\ IF serialisable
       THEN /\ pubPc' = "check"
            /\ attempt' = 1
            /\ pubResult' = "none"
       ELSE /\ pubPc' = "done"
            /\ attempt' = 0
            /\ pubResult' = "false"
    /\ UNCHANGED <<connected, clientConnected>>
    /\ UNCHANGED <<impactVars, codecVars, detectCall, logVars, crashVars, runVars>>

\* _is_connected(): the read of self.connected
CheckFlag ==
    /\ pubPc = "check"
    /\ pubTrace' = Append(pubTrace, Ev("flag", attempt, connected, 0, 0, FALSE))
    /\ pubPc' = IF connected THEN "publish" ELSE "checkClient"
    /\ UNCHANGED <<connected, clientConnected, attempt, pubResult, pubRaised>>
    /\ UNCHANGED <<impactVars, codecVars, detectCall, logVars, crashVars, runVars>>

\* _is_connected(): self.connected was False, the call of client.is_connected()
CheckClient ==
    /\ pubPc = "checkClient"
    /\ pubTrace' = Append(pubTrace, Ev("client", attempt, clientConnected, 0, 0, FALSE))
    /\ pubPc' = IF clientConnected THEN "publish" ELSE "reconnect"
    /\ UNCHANGED <<connected, clientConnected, attempt, pubResult, pubRaised>>
    /\ UNCHANGED <<impactVars, codecVars, detectCall, logVars, crashVars, runVars>>

\* a loop that allows one attempt more than MAX_RETRIES
AfterFailedAttemptOneMore ==
    IF attempt <= MAX_RETRIES
    THEN /\ pubPc' = "backoff"
         /\ pubResult' = pubResult
    ELSE /\ pubPc' = "done"
         /\ pubResult' = "false"

\* the end of one iteration of the for loop that did not return: the backoff
\* sleep when another attempt follows, else the loop ends and False is returned
AfterFailedAttempt ==
    IF attempt < MAX_RETRIES
    THEN /\ pubPc' = "backoff"
         /\ pubResult' = pubResult
    ELSE /\ pubPc' = "done"
         /\ pubResult' = "false"


\* a reconnect that is not followed by the settle sleep
ReconnectReturnsNoSettle ==
    /\ pubPc = "reconnect"
    /\ pubTrace' = Append(pubTrace, Ev("reconnect", attempt, TRUE, 0, 0, FALSE))
    /\ pubPc' = "publish"
    /\ UNCHANGED <<connected, clientConnected, attempt, pubResult, pubRaised>>
    /\ UNCHANGED <<impactVars, codecVars, detectCall, logVars, crashVars, runVars>>

\* client.reconnect() returns
ReconnectReturns ==
    /\ pubPc = "reconnect"
    /\ pubTrace' = Append(pubTrace, Ev("reconnect", attempt, TRUE, 0, 0, FALSE))
    /\ pubPc' = "settle"
    /\ UNCHANGED <<connected, clientConnected, attempt, pubResult, pubRaised>>
    /\ UNCHANGED <<impactVars, codecVars, detectCall, logVars, crashVars, runVars>>

\* a failed reconnect after which the attempt goes on to its publish
ReconnectRaisesThenPublishes ==
    /\ pubPc = "reconnect"
    /\ pubTrace' = Append(pubTrace, Ev("reconnect", attempt, FALSE, 0, 0, FALSE))
    /\ pubPc' = "publish"
    /\ UNCHANGED <<connected, clientConnected, attempt, pubResult, pubRaised>>
    /\ UNCHANGED <<impactVars, codecVars, detectCall, logVars, crashVars, runVars>>

\* client.reconnect() raises: caught, backoff, continue
ReconnectRaises ==
    /\ pubPc = "reconnect"
    /\ pubTrace' = Append(pubTrace, Ev("reconnect", attempt, FALSE, 0, 0, FALSE))
    /\ AfterFailedAttempt
    /\ UNCHANGED <<connected, clientConnected, attempt, pubRaised>>
    /\ UNCHANGED <<impactVars, codecVars, detectCall, logVars, crashVars, runVars>>

\* a settle sleep after which safe_publish itself marks the client connected
SettleSetsFlag ==
    /\ pubPc = "settle"
    /\ pubTrace' = Append(pubTrace, Ev("settle", attempt, TRUE, 0, RECONNECT_WAIT_S, FALSE))
    /\ pubPc' = "publish"
    /\ connected' = TRUE
    /\ UNCHANGED <<clientConnected, attempt, pubResult, pubRaised>>
    /\ UNCHANGED <<impactVars, codecVars, detectCall, logVars, crashVars, runVars>>

\* time.sleep(RECONNECT_WAIT_S)
Settle ==
    /\ pubPc = "settle"
    /\ pubTrace' = Append(pubTrace, Ev("settle", attempt, TRUE, 0, RECONNECT_WAIT_S, FALSE))
    /\ pubPc' = "publish"
    /\ UNCHANGED <<connected, clientConnected, attempt, pubResult, pubRaised>>
    /\ UNCHANGED <<impactVars, codecVars, detectCall, logVars, crashVars, runVars>>


\* a publish whose success does not end the loop
PublishReturnsNoReturn(rc) ==
    /\ pubPc = "publish"
    /\ pubTrace' = Append(pubTrace, Ev("publish", attempt, TRUE, rc, 0, connected))
    /\ AfterFailedAttempt
    /\ UNCHANGED <<connected, clientConnected, attempt, pubRaised>>
    /\ UNCHANGED <<impactVars, codecVars, detectCall, logVars, crashVars, runVars>>

\* client.publish(...) returns result code rc
PublishReturns(rc) ==
    /\ pubPc = "publish"
    /\ pubTrace' = Append(pubTrace, Ev("publish", attempt, TRUE, rc, 0, connected))
    /\ IF rc = 0
       THEN /\ pubPc' = "done"
            /\ pubResult' = "true"
       ELSE AfterFailedAttempt
    /\ UNCHANGED <<connected, clientConnected, attempt, pubRaised>>
    /\ UNCHANGED <<impactVars, codecVars, detectCall, logVars, crashVars, runVars>>


\* a publish whose exception no except catches
PublishRaisesUncaught ==
    /\ pubPc = "publish"
    /\ pubTrace' = Append(pubTrace, Ev("publish", attempt, FALSE, 0, 0, connected))
    /\ pubPc' = "done"
    /\ pubRaised' = TRUE
    /\ UNCHANGED <<connected, clientConnected, attempt, pubResult>>
    /\ UNCHANGED <<impactVars, codecVars, detectCall, logVars, crashVars, runVars>>

\* client.publish(...) raises: caught by the except of the attempt
PublishRaises ==
    /\ pubPc = "publish"
    /\ pubTrace' = Append(pubTrace, Ev("publish", attempt, FALSE, 0, 0, connected))
    /\ AfterFailedAttempt
    /\ UNCHANGED <<connected, clientConnected, attempt, pubRaised>>
    /\ UNCHANGED <<impactVars, codecVars, detectCall, logVars, crashVars, runVars>>

\* time.sleep(delay), then the next iteration
Backoff ==
    /\ pubPc = "backoff"
    /\ pubTrace' = Append(pubTrace, Ev("backoff", attempt, TRUE, 0, BackoffDelay(attempt),
                                    FALSE))
    /\ attempt' = attempt + 1
    /\ pubPc' = "check"
    /\ UNCHANGED <<connected, clientConnected, pubResult, pubRaised>>
    /\ UNCHANGED <<impactVars, codecVars, detectCall, logVars, crashVars, runVars>>

PubCall == \E s \in BOOLEAN : SafePublishCall(s)
PubPublish == \E rc \in ResultCodes : PublishReturns(rc)
PubOnConnect == \E rc \in ResultCodes : OnConnect(rc)
PubTransport == \E b \in BOOLEAN : TransportState(b)

PublisherNext ==
    \/ PubCall
    \/ CheckFlag
    \/ CheckClient
    \/ ReconnectReturns
    \/ ReconnectRaises
    \/ Settle
    \/ PubPublish
    \/ PublishRaises
    \/ Backoff
    \/ PubOnConnect
    \/ OnDisconnect
    \/ PubTransport

----------------------------------------------------------------------------
\* BlackboxLogger.  A file is the sequence of its records; every record counts
\* one unit of size.  fail names the step of a call that raises ("ok": none):
\* "dumps" (json.dumps), "append" (open/write), "compress" (gzip), "remove"
\* (os.remove of the rotated log), "cleanup" (os.remove of an old archive).

LogFailures == {"ok", "dumps", "append", "compress", "remove", "cleanup"}

AbsentFile == [exists |-> FALSE, recs |-> << >>]

\* _get_log_size
GetLogSize(file) == IF file.exists THEN Len(file.recs) ELSE 0

\* gzip.open(archive_file, 'wb'): an archive of that name is replaced
WriteArchive(arch, name, recs, complete) ==
    {a \in arch : a.name # name} \cup {[name |-> name, recs |-> recs, complete |-> complete]}

\* a listing sorted oldest first: the rotation_count oldest archives are kept
BeyondRotationCountOldestKept(arch) ==
    {a \in arch : Cardinality({b \in arch : b.name < a.name}) >= rotation_count}

\* sorted(..., reverse=True)[rotation_count:]: the archives that are not among
\* the rotation_count newest by name
BeyondRotationCount(arch) ==
    {a \in arch : Cardinality({b \in arch : b.name > a.name}) >= rotation_count}

\* _cleanup_old_archives: a failing os.remove ends the loop, caught
CleanupOldArchives(arch, fail) ==
    IF fail = "cleanup" THEN arch ELSE arch \ BeyondRotationCount(arch)

\* _rotate_log(filepath), at wall-clock second: [cur, arch] afterwards
RotateLog(cur, arch, second, fail) ==
    IF ~cur.exists THEN [cur |-> cur, arch |-> arch]
    ELSE IF GetLogSize(cur) < max_size_bytes THEN [cur |-> cur, arch |-> arch]
    ELSE IF fail = "compress"
    THEN [cur |-> cur, arch |-> WriteArchive(arch, second, << >>, FALSE)]
    ELSE IF fail = "remove"
    THEN [cur |-> cur, arch |-> WriteArchive(arch, second, cur.recs, TRUE)]
    ELSE [cur |-> AbsentFile,
          arch |-> CleanupOldArchives(WriteArchive(arch, second, cur.recs, TRUE), fail)]

\* a log without the try/except around its body: what fails inside reaches the caller
LogUncaught(cur, arch, rec, second, fail) ==
    IF fail \in {"dumps", "append"} THEN [cur |-> cur, arch |-> arch, raised |-> TRUE]
    ELSE LET r == RotateLog([exists |-> TRUE, recs |-> Append(cur.recs, rec)], arch,
                            second, fail)
         IN [cur |-> r.cur, arch |-> r.arch, raised |-> FALSE]

\* log(data, log_type): [cur, arch] afterwards; raised says whether the call
\* left with an exception.  The whole body is inside try/except Exception.
Log(cur, arch, rec, second, fail) ==
    IF fail \in {"dumps", "append"} THEN [cur |-> cur, arch |-> arch, raised |-> FALSE]
    ELSE LET r == RotateLog([exists |-> TRUE, recs |-> Append(cur.recs, rec)], arch,
                            second, fail)
         IN [cur |-> r.cur, arch |-> r.arch, raised |-> FALSE]

\* a log_crash that writes the crash twice to the crash-only log
LogCrashTwice(crash, cur, arch, id, second, crashFail, fail) ==
    IF crashFail \in {"dumps", "append"}
    THEN [crash |-> crash, cur |-> cur, arch |-> arch, raised |-> FALSE]
    ELSE LET g == Log(cur, arch, [kind |-> "crash", id |-> id], second, fail)
             e == [kind |-> "crash_event", id |-> id]
         IN [crash |-> crash \o <<e, e>>,
             cur |-> g.cur, arch |-> g.arch, raised |-> FALSE]

\* log_crash(crash_data): [crash, cur, arch] afterwards.  crashFail is the step
\* of the crash-only append that raises, fail the one of the nested log call.
\* The whole body, the nested log call included, is inside try/except Exception.
LogCrash(crash, cur, arch, id, second, crashFail, fail) ==
    IF crashFail \in {"dumps", "append"}
    THEN [crash |-> crash, cur |-> cur, arch |-> arch, raised |-> FALSE]
    ELSE LET g == Log(cur, arch, [kind |-> "crash", id |-> id], second, fail)
         IN [crash |-> Append(crash, [kind |-> "crash_event", id |-> id]),
             cur |-> g.cur, arch |-> g.arch, raised |-> FALSE]

\* the attributes of a BlackboxLogger object: __init__ sets them and no method
\* assigns any attribute afterwards
BlackboxAttributes ==
    [max_size_bytes |-> max_size_bytes, rotation_count |-> rotation_count,
     current_log_file |-> "blackbox_current.jsonl",
     crash_log_file |-> "crash_events.jsonl"]

\* what the caller of log or log_crash has in hand when the call is back: both
\* return None on every path, and the object's attributes
CallerView(call) == [returned |-> "None", attributes |-> BlackboxAttributes]

\* no log call has been made yet
NoLogCall == [made |-> FALSE]

\* BlackboxLogger.__init__ on an empty log directory
LoggerInit ==
    /\ current_log = AbsentFile
    /\ crash_log = << >>
    /\ archives = {}
    /\ logSecond = 0
    /\ logPc = "idle"
    /\ logCall = NoLogCall
    /\ nLogs = 0

\* the first n archives that the loop of _cleanup_old_archives removes: it
\* walks archive_files[rotation_count:], newest first
RemovedFirst(arch, n) ==
    {a \in BeyondRotationCount(arch) :
        Cardinality({b \in BeyondRotationCount(arch) : b.name > a.name}) < n}

\* the wall clock reaches the next second
ClockTick ==
    /\ crashPc \in {"idle", "done"}
    /\ logSecond' = logSecond + 1
    /\ UNCHANGED <<current_log, crash_log, archives, logPc, logCall, nLogs, crashVars,
                   runVars, impactVars, codecVars, detectCall, pubVars>>

ClockSecond ==
    /\ logSecond < MaxSecond
    /\ ClockTick

----------------------------------------------------------------------------
\* BlackboxLogger.log and log_crash, one file operation at a time.  ok says
\* whether the operation of the step succeeds; when it raises, the except of
\* the enclosing method prints and the call returns.

notLogVars == <<impactVars, pubVars, crashVars, runVars, codecVars, detectCall>>

\* the record a call appends to the general log
GeneralRecord(call) ==
    [kind |-> IF call.op = "log_crash" THEN "crash" ELSE "sensor", id |-> call.id]

\* log(data, "sensor") or log_crash(crash_data) is entered
LogEnter(op) ==
    /\ logPc = "idle"
    /\ nLogs' = nLogs + 1
    /\ logCall' = [made |-> TRUE, op |-> op, id |-> nLogs + 1,
                   before |-> current_log, crashBefore |-> crash_log,
                   archBefore |-> archives, crashAppended |-> FALSE,
                   appended |-> FALSE, failed |-> "none", rotated |-> "no",
                   name |-> 0, cleanup |-> "no"]
    /\ logPc' = IF op = "log_crash" THEN "crash_append" ELSE "append"
    /\ UNCHANGED <<current_log, crash_log, archives, logSecond, notLogVars>>

\* a log_crash that returns after the crash-only append
LogCrashAppendOnly(ok) ==
    /\ logPc = "crash_append"
    /\ crash_log' = IF ok THEN Append(crash_log, [kind |-> "crash_event", id |-> logCall.id])
                    ELSE crash_log
    /\ logCall' = [logCall EXCEPT !.crashAppended = ok,
                                  !.failed = IF ok THEN "none" ELSE "crash_append"]
    /\ logPc' = "idle"
    /\ UNCHANGED <<current_log, archives, logSecond, nLogs, notLogVars>>

\* log_crash, lines 121-131: json.dumps(crash_entry) and the append to
\* crash_events.jsonl; then self.log(crash_data, 'crash') is entered
LogCrashAppend(ok) ==
    /\ logPc = "crash_append"
    /\ crash_log' = IF ok THEN Append(crash_log, [kind |-> "crash_event", id |-> logCall.id])
                    ELSE crash_log
    /\ logCall' = [logCall EXCEPT !.crashAppended = ok,
                                  !.failed = IF ok THEN "none" ELSE "crash_append"]
    /\ logPc' = IF ok THEN "append" ELSE "idle"
    /\ UNCHANGED <<current_log, archives, logSecond, nLogs, notLogVars>>

\* a log that returns right after its append, without the rotation check
LogAppendNoRotate(ok) ==
    /\ logPc = "append"
    /\ current_log' = IF ok
                      THEN [exists |-> TRUE,
                            recs |-> Append(current_log.recs, GeneralRecord(logCall))]
                      ELSE current_log
    /\ logCall' = [logCall EXCEPT !.appended = ok,
                                  !.failed = IF ok THEN "none" ELSE "append"]
    /\ logPc' = "idle"
    /\ UNCHANGED <<crash_log, archives, logSecond, nLogs, notLogVars>>

\* log, lines 97-107: json.dumps(log_entry) and the append to
\* blackbox_current.jsonl
LogAppend(ok) ==
    /\ logPc = "append"
    /\ current_log' = IF ok
                      THEN [exists |-> TRUE,
                            recs |-> Append(current_log.recs, GeneralRecord(logCall))]
                      ELSE current_log
    /\ logCall' = [logCall EXCEPT !.appended = ok,
                                  !.failed = IF ok THEN "none" ELSE "append"]
    /\ logPc' = IF ok THEN "rotate" ELSE "idle"
    /\ UNCHANGED <<crash_log, archives, logSecond, nLogs, notLogVars>>

\* a rotation check that waits until the log is larger than the maximum
LogRotateCheckStrict ==
    /\ logPc = "rotate"
    /\ UNCHANGED <<current_log, crash_log, archives, logSecond, nLogs, notLogVars>>
    /\ IF ~current_log.exists \/ GetLogSize(current_log) <= max_size_bytes
       THEN logPc' = "idle" /\ UNCHANGED logCall
       ELSE /\ logPc' = "compress"
            /\ logCall' = [logCall EXCEPT !.rotated = "started", !.name = logSecond]

\* _rotate_log, lines 44-53: the two early returns, then the archive's name
LogRotateCheck ==
    /\ logPc = "rotate"
    /\ UNCHANGED <<current_log, crash_log, archives, logSecond, nLogs, notLogVars>>
    /\ IF ~current_log.exists \/ GetLogSize(current_log) < max_size_bytes
       THEN logPc' = "idle" /\ UNCHANGED logCall
       ELSE /\ logPc' = "compress"
            /\ logCall' = [logCall EXCEPT !.rotated = "started", !.name = logSecond]

\* a rotation that removes the original before it has written the archive
LogCompressOpenRemovesFirst(ok) ==
    /\ logPc = "compress"
    /\ UNCHANGED <<crash_log, logSecond, nLogs, notLogVars>>
    /\ IF ok
       THEN /\ archives' = WriteArchive(archives, logCall.name, << >>, FALSE)
            /\ current_log' = AbsentFile
            /\ logPc' = "write"
            /\ UNCHANGED logCall
       ELSE /\ logPc' = "idle"
            /\ logCall' = [logCall EXCEPT !.rotated = "compress_failed"]
            /\ UNCHANGED <<current_log, archives>>

\* _rotate_log, lines 57-58: open(filepath, 'rb') and gzip.open(archive_file,
\* 'wb'), which creates the archive or empties the one of that name
LogCompressOpen(ok) ==
    /\ logPc = "compress"
    /\ UNCHANGED <<current_log, crash_log, logSecond, nLogs, notLogVars>>
    /\ IF ok
       THEN /\ archives' = WriteArchive(archives, logCall.name, << >>, FALSE)
            /\ logPc' = "write"
            /\ UNCHANGED logCall
       ELSE /\ logPc' = "idle"
            /\ logCall' = [logCall EXCEPT !.rotated = "compress_failed"]
            /\ UNCHANGED archives

\* _rotate_log, line 59: f_out.writelines(f_in) and the close of both files;
\* a failure part-way leaves the archive incomplete and the original in place
LogCompressWrite(ok) ==
    /\ logPc = "write"
    /\ UNCHANGED <<current_log, crash_log, logSecond, nLogs, notLogVars>>
    /\ IF ok
       THEN /\ archives' = WriteArchive(archives, logCall.name, current_log.recs, TRUE)
            /\ logPc' = "remove"
            /\ UNCHANGED logCall
       ELSE /\ logPc' = "idle"
            /\ logCall' = [logCall EXCEPT !.rotated = "compress_failed"]
            /\ UNCHANGED archives

\* _rotate_log, line 62: os.remove(filepath)
LogRemove(ok) ==
    /\ logPc = "remove"
    /\ current_log' = IF ok THEN AbsentFile ELSE current_log
    /\ logCall' = [logCall EXCEPT !.rotated = IF ok THEN "done" ELSE "remove_failed"]
    /\ logPc' = IF ok THEN "cleanup" ELSE "idle"
    /\ UNCHANGED <<crash_log, archives, logSecond, nLogs, notLogVars>>

\* a pruning that lists every file of the log directory: when it removes old
\* archives it removes crash_events.jsonl with them
LogCleanupAnyFile(n) ==
    /\ logPc = "cleanup"
    /\ n <= Cardinality(BeyondRotationCount(archives))
    /\ archives' = archives \ RemovedFirst(archives, n)
    /\ crash_log' = IF n > 0 THEN << >> ELSE crash_log
    /\ logCall' = [logCall EXCEPT
                       !.cleanup = IF n = Cardinality(BeyondRotationCount(archives))
                                   THEN "done" ELSE "failed"]
    /\ logPc' = "idle"
    /\ UNCHANGED <<current_log, logSecond, nLogs, notLogVars>>

\* _rotate_log, line 65: _cleanup_old_archives(), which catches its own
\* exceptions.  n old archives are removed; when more are left, the os.remove
\* of the next one raised and ended the loop.
LogCleanup(n) ==
    /\ logPc = "cleanup"
    /\ n <= Cardinality(BeyondRotationCount(archives))
    /\ archives' = archives \ RemovedFirst(archives, n)
    /\ logCall' = [logCall EXCEPT
                       !.cleanup = IF n = Cardinality(BeyondRotationCount(archives))
                                   THEN "done" ELSE "failed"]
    /\ logPc' = "idle"
    /\ UNCHANGED <<current_log, crash_log, logSecond, nLogs, notLogVars>>

LogOps == {"log", "log_crash"}

LoggerEnter ==
    /\ nLogs < MaxLogs
    /\ \E op \in LogOps : LogEnter(op)
LoggerCrashAppend == \E ok \in BOOLEAN : LogCrashAppend(ok)
LoggerAppend == \E ok \in BOOLEAN : LogAppend(ok)
LoggerCompressOpen == \E ok \in BOOLEAN : LogCompressOpen(ok)
LoggerCompressWrite == \E ok \in BOOLEAN : LogCompressWrite(ok)
LoggerRemove == \E ok \in BOOLEAN : LogRemove(ok)
LoggerCleanup ==
    \E n \in 0..Cardinality(BeyondRotationCount(archives)) : LogCleanup(n)

LoggerNext ==
    \/ LoggerEnter
    \/ LoggerCrashAppend
    \/ LoggerAppend
    \/ LogRotateCheck
    \/ LoggerCompressOpen
    \/ LoggerCompressWrite
    \/ LoggerRemove
    \/ LoggerCleanup
    \/ ClockSecond

\* the logger over many rotations: sensor frames are logged, every append,
\* compression and removal succeeds, the pruning of old archives may fail, and
\* the clock moves between the calls
RetentionEnter ==
    /\ nLogs < MaxRetentionLogs
    /\ LogEnter("log")

RetentionSecond ==
    /\ logSecond < MaxRetentionSecond
    /\ logPc = "idle"
    /\ ClockTick

RetentionNext ==
    \/ RetentionEnter
    \/ LogAppend(TRUE)
    \/ LogRotateCheck
    \/ LogCompressOpen(TRUE)
    \/ LogCompressWrite(TRUE)
    \/ LogRemove(TRUE)
    \/ LoggerCleanup
    \/ RetentionSecond

\* the logger over many rotations with crash events among the frames: log and
\* log_crash calls in any order, the crash-only append may fail, the general
\* log's appends, compressions and removals succeed, the pruning may fail
AppendOnlyEnter ==
    /\ nLogs < MaxAppendOnlyLogs
    /\ \E op \in LogOps : LogEnter(op)

AppendOnlyNext ==
    \/ AppendOnlyEnter
    \/ LoggerCrashAppend
    \/ LogAppend(TRUE)
    \/ LogRotateCheck
    \/ LogCompressOpen(TRUE)
    \/ LogCompressWrite(TRUE)
    \/ LogRemove(TRUE)
    \/ LoggerCleanup
    \/ RetentionSecond

----------------------------------------------------------------------------
\* CrashDetectionUnit.handle_crash, step by step

\* no crash_payload has been built yet
NoPayload == [built |-> FALSE]

\* list(x): a new list object holding the items x holds now
NewList(items) == [obj |-> "list", items |-> items]

\* what the object o holds in the current state: a list holds its own items,
\* a reference to self.data_buffer holds whatever the deque holds
Contents(o) == IF o.obj = "data_buffer" THEN data_buffer ELSE o.items

\* self.last_known_gps before the first fix: None
GpsNone == [set |-> FALSE, fix_quality |-> 0, position |-> 0]

\* the "location" entry of crash_payload (lines 170, 177-180) for the "gps"
\* entry of the frame: latitude and longitude of the dict, None without a dict
Location(gps) ==
    IF gps.set THEN [set |-> TRUE, position |-> gps.position]
    ELSE [set |-> FALSE, position |-> 0]

\* a crash_payload that holds a reference to the deque instead of a copy
CrashPayloadAlias(id, sensor_data) ==
    [built |-> TRUE, id |-> id, crash_data |-> sensor_data,
     location |-> Location(frameGps[sensor_data].gps),
     pre_crash_buffer |-> [obj |-> "data_buffer", items |-> << >>]]

\* the crash_payload dict of handle_crash (lines 172-184), for the frame
\* sensor_data of the running tick
CrashPayload(id, sensor_data) ==
    [built |-> TRUE, id |-> id, crash_data |-> sensor_data,
     location |-> Location(frameGps[sensor_data].gps),
     pre_crash_buffer |-> NewList(data_buffer)]

CrashInit ==
    /\ crashPc = "idle"
    /\ nCrashes = 0
    /\ payloadOk = TRUE
    /\ crashTrace = << >>
    /\ crash_payload = NoPayload
    /\ loraHanded = "none"


\* a handle_crash that goes to the network before it logs
HandleCrashNoLog(serialisable) ==
    /\ crashPc \in {"idle", "done"}
    /\ runPc = "detect"
    /\ nCrashes < MaxCrashes
    /\ nCrashes' = nCrashes + 1
    /\ payloadOk' = serialisable
    /\ crashTrace' = << >>
    /\ crash_payload' = CrashPayload(nCrashes + 1, nSamples)
    /\ loraHanded' = "none"
    /\ crashPc' = "net"
    /\ runPc' = "handle"
    /\ tickTrace' = tickTrace \o <<"detect", "handle">>
    /\ UNCHANGED <<data_buffer, nSamples, last_known_gps, frameGps, tickFail,
                   blackboxClosed, logVars, impactVars, codecVars, detectCall, pubVars>>

\* handle_crash is entered and crash_payload is built
HandleCrash(serialisable) ==
    /\ crashPc \in {"idle", "done"}
    /\ runPc = "detect"
    /\ nCrashes < MaxCrashes
    /\ nCrashes' = nCrashes + 1
    /\ payloadOk' = serialisable
    /\ crashTrace' = << >>
    /\ crash_payload' = CrashPayload(nCrashes + 1, nSamples)
    /\ loraHanded' = "none"
    /\ crashPc' = "log"
    /\ runPc' = "handle"
    /\ tickTrace' = tickTrace \o <<"detect", "handle">>
    /\ UNCHANGED <<data_buffer, nSamples, last_known_gps, frameGps, tickFail,
                   blackboxClosed, logVars, impactVars, codecVars, detectCall, pubVars>>

\* self.blackbox.log_crash(crash_payload): returns, whatever fails inside
CrashLogCrash(crashFail, fail) ==
    /\ crashPc = "log"
    /\ payloadOk <=> crashFail # "dumps"
    /\ LET r == LogCrash(crash_log, current_log, archives, nCrashes, logSecond,
                         crashFail, fail)
       IN /\ crash_log' = r.crash
          /\ current_log' = r.cur
          /\ archives' = r.arch
          /\ crashPc' = IF r.raised THEN "raised" ELSE "net"
          /\ runPc' = IF r.raised THEN "died" ELSE runPc
    /\ crashTrace' = Append(crashTrace, Ev("log_crash", nCrashes, crashFail = "ok", 0, 0,
                                       FALSE))
    /\ UNCHANGED <<logSecond, logPc, logCall, nLogs, nCrashes, payloadOk,
                   crash_payload, loraHanded, data_buffer, nSamples, last_known_gps,
                   frameGps, tickTrace, tickFail, blackboxClosed, impactVars, codecVars, detectCall, pubVars>>


\* a network check whose branches are swapped
CrashNetworkCheckSwapped(available) ==
    /\ crashPc = "net"
    /\ crashTrace' = Append(crashTrace, Ev("net", nCrashes, available, 0, 0, FALSE))
    /\ crashPc' = IF available THEN "lora" ELSE "publish"
    /\ UNCHANGED <<logVars, nCrashes, payloadOk, crash_payload, loraHanded, runVars,
                   impactVars, codecVars, detectCall, pubVars>>

\* is_network_available()
CrashNetworkCheck(available) ==
    /\ crashPc = "net"
    /\ crashTrace' = Append(crashTrace, Ev("net", nCrashes, available, 0, 0, FALSE))
    /\ crashPc' = IF available THEN "publish" ELSE "lora"
    /\ UNCHANGED <<logVars, nCrashes, payloadOk, crash_payload, loraHanded, runVars,
                   impactVars, codecVars, detectCall, pubVars>>

\* self.cloud_client.publish(crash_payload) returns: client.publish gave result
\* code rc, which publish logs and does not hand back
CrashPublishReturns(rc) ==
    /\ crashPc = "publish"
    /\ payloadOk
    /\ crashTrace' = Append(crashTrace, Ev("publish", nCrashes, TRUE, rc, 0, FALSE))
    /\ crashPc' = "done"
    /\ UNCHANGED <<logVars, nCrashes, payloadOk, crash_payload, loraHanded, runVars,
                   impactVars, codecVars, detectCall, pubVars>>

\* self.cloud_client.publish(crash_payload) raises (json.dumps or client.publish
\* raised, publish re-raises): the except of handle_crash goes to LoRa
CrashPublishRaises ==
    /\ crashPc = "publish"
    /\ crashTrace' = Append(crashTrace, Ev("publish", nCrashes, FALSE, 0, 0, FALSE))
    /\ crashPc' = "lora"
    /\ UNCHANGED <<logVars, nCrashes, payloadOk, crash_payload, loraHanded, runVars,
                   impactVars, codecVars, detectCall, pubVars>>

\* self.lora_tx.send_payload(crash_payload): the fallback radio is handed the
\* crash_payload dict as handle_crash built it; encrypt_data is not called
CrashLoraSend ==
    /\ crashPc = "lora"
    /\ crashTrace' = Append(crashTrace, Ev("lora", nCrashes, TRUE, 0, 0, FALSE))
    /\ loraHanded' = "crash_payload"
    /\ crashPc' = "done"
    /\ UNCHANGED <<logVars, nCrashes, payloadOk, crash_payload, runVars, impactVars, codecVars, detectCall,
                   pubVars>>

----------------------------------------------------------------------------
\* CrashDetectionUnit.run: one tick reads a frame, logs it, pushes it into the
\* pre-crash buffer and asks detect_crash; a frame is named by its tick number

\* a buffer that drops the new frame when it is full
BufferAppendKeepsOldest(buf, frame) ==
    IF Len(buf) >= buffer_size THEN buf ELSE Append(buf, frame)

\* deque(maxlen=buffer_size).append
BufferAppend(buf, frame) ==
    IF Len(buf) >= buffer_size THEN Append(Tail(buf), frame) ELSE Append(buf, frame)

RunInit ==
    /\ data_buffer = << >>
    /\ nSamples = 0
    /\ runPc = "tick"
    /\ last_known_gps = GpsNone
    /\ frameGps = << >>
    /\ tickTrace = << >>
    /\ tickFail = "ok"
    /\ blackboxClosed = FALSE

\* the while loop of run is at its top: it has not started a tick
AtLoopTop == runPc = "tick"

\* a read_all_sensors without the cache: the frame shows the reading of its tick
ReadAllSensorsNoCache(known, gps_raw) ==
    IF gps_raw.fix_quality > 0
    THEN [set |-> TRUE, fix_quality |-> gps_raw.fix_quality, position |-> gps_raw.position]
    ELSE GpsNone

\* read_all_sensors (lines 102-132), called at line 215: gps_raw is what
\* gps_sensor.get_position() returned.  A reading with fix_quality > 0 replaces
\* self.last_known_gps; the frame's "gps" entry is self.last_known_gps.
ReadAllSensors(known, gps_raw) ==
    IF gps_raw.fix_quality > 0
    THEN [set |-> TRUE, fix_quality |-> gps_raw.fix_quality, position |-> gps_raw.position]
    ELSE known

\* line 215: sensor_data = self.read_all_sensors()
RunRead(gps_raw) ==
    /\ AtLoopTop
    /\ nSamples' = nSamples + 1
    /\ last_known_gps' = ReadAllSensors(last_known_gps, gps_raw)
    /\ frameGps' = Append(frameGps, [raw |-> gps_raw, gps |-> last_known_gps'])
    /\ tickTrace' = <<"read">>
    /\ tickFail' = "ok"
    /\ runPc' = "log"
    /\ UNCHANGED <<data_buffer, blackboxClosed, logVars, crashVars, impactVars, codecVars, detectCall, pubVars>>

\* a loop whose tick pushes the frame first and never logs it
RunLogSkipped(fail) ==
    /\ runPc = "log"
    /\ data_buffer' = BufferAppend(data_buffer, nSamples)
    /\ tickTrace' = Append(tickTrace, "push")
    /\ tickFail' = "ok"
    /\ runPc' = "detect"
    /\ UNCHANGED <<nSamples, last_known_gps, frameGps, blackboxClosed, logVars, crashVars,
                   impactVars, codecVars, detectCall, pubVars>>

\* line 217: self.blackbox.log(sensor_data, "sensor"); an exception that left
\* log would end the loop, run has no except Exception
RunLog(fail) ==
    /\ runPc = "log"
    /\ LET g == Log(current_log, archives, [kind |-> "sensor", id |-> nSamples],
                    logSecond, fail)
       IN /\ current_log' = g.cur
          /\ archives' = g.arch
          /\ runPc' = IF g.raised THEN "died" ELSE "push"
    /\ tickTrace' = Append(tickTrace, "log")
    /\ tickFail' = fail
    /\ UNCHANGED <<data_buffer, nSamples, last_known_gps, frameGps, blackboxClosed,
                   crash_log, logSecond, logPc, logCall, nLogs, crashVars, impactVars, codecVars, detectCall,
                   pubVars>>

\* line 218: self.data_buffer.append(sensor_data)
RunPush ==
    /\ runPc = "push"
    /\ data_buffer' = BufferAppend(data_buffer, nSamples)
    /\ tickTrace' = Append(tickTrace, "push")
    /\ runPc' = "detect"
    /\ UNCHANGED <<nSamples, last_known_gps, frameGps, tickFail, blackboxClosed, logVars,
                   crashVars, impactVars, codecVars, detectCall, pubVars>>

\* lines 221-229: detect_crash says no crash, the tick goes to time.sleep(interval)
RunNoCrash ==
    /\ runPc = "detect"
    /\ tickTrace' = Append(tickTrace, "detect")
    /\ runPc' = "sleep"
    /\ UNCHANGED <<data_buffer, nSamples, last_known_gps, frameGps, tickFail,
                   blackboxClosed, logVars, crashVars, impactVars, codecVars, detectCall, pubVars>>

\* lines 225-227: handle_crash has returned, time.sleep(5) ends
RunCrashSleep ==
    /\ runPc = "handle"
    /\ crashPc = "done"
    /\ runPc' = "sleep"
    /\ UNCHANGED <<data_buffer, nSamples, last_known_gps, frameGps, tickTrace, tickFail,
                   blackboxClosed, logVars, crashVars, impactVars, codecVars, detectCall, pubVars>>

\* line 229: time.sleep(interval) ends, the loop is at its top again
RunSleep ==
    /\ runPc = "sleep"
    /\ runPc' = "tick"
    /\ UNCHANGED <<data_buffer, nSamples, last_known_gps, frameGps, tickTrace, tickFail,
                   blackboxClosed, logVars, crashVars, impactVars, codecVars, detectCall, pubVars>>

\* the process is inside the while loop of run
Running == runPc \in {"tick", "log", "push", "detect", "handle", "sleep"}

\* the signals that ask the process to stop
ShutdownSignals == {"SIGINT", "SIGTERM"}

\* a signal arrives while run is in its loop (lines 210-233).  The program
\* installs no handler: SIGINT becomes KeyboardInterrupt in the main thread,
\* which ends the running statement (a sleep included), passes every
\* except Exception on its way and reaches the except of run; SIGTERM has
\* its default disposition and ends the process where it stands.
RunSignal(sig) ==
    /\ Running
    /\ runPc' = IF sig = "SIGINT" THEN "cleanup" ELSE "killed"
    /\ crashPc' = IF crashPc \in {"idle", "done"} THEN crashPc ELSE "interrupted"
    /\ tickTrace' = Append(tickTrace, sig)
    /\ UNCHANGED <<data_buffer, nSamples, last_known_gps, frameGps, tickFail,
                   blackboxClosed, nCrashes, payloadOk, crashTrace, crash_payload,
                   loraHanded, logVars, impactVars, codecVars, detectCall, pubVars>>

\* cleanup (lines 237-252), called from the except of run: the sensor
\* cleanups are each inside try/except Exception, then self.blackbox.close()
RunCleanup ==
    /\ runPc = "cleanup"
    /\ blackboxClosed' = TRUE
    /\ runPc' = "exited"
    /\ UNCHANGED <<data_buffer, nSamples, last_known_gps, frameGps, tickTrace, tickFail,
                   logVars, crashVars, impactVars, codecVars, detectCall, pubVars>>

RunShutdown == \E sig \in ShutdownSignals : RunSignal(sig)

\* the steps of blackbox.log that can fail while a sensor frame is logged
SampleFailures == {"ok", "append"}

\* what get_position returns while the receiver has no fix
NoFix == [fix_quality |-> 0, position |-> 0]

RunTick == nSamples < MaxSamples /\ RunRead(NoFix)

RunLogFrame == \E f \in SampleFailures : RunLog(f)

\* what get_position can return: no fix yet, a position whose fix_quality is 0,
\* and valid fixes at two positions
GpsReadings ==
    {NoFix, [fix_quality |-> 0, position |-> 1], [fix_quality |-> 1, position |-> 1],
     [fix_quality |-> 2, position |-> 2]}

GpsTick == nSamples < MaxSamples /\ \E g \in GpsReadings : RunRead(g)

\* lines 221-225: detect_crash says crash, handle_crash is entered
CrashStart == \E s \in BOOLEAN : HandleCrash(s)
CrashLog ==
    \E cf \in {"ok", "dumps", "append"}, f \in LogFailures \ {"dumps"} :
        CrashLogCrash(cf, f)
CrashNet == \E a \in BOOLEAN : CrashNetworkCheck(a)
CrashPublish == \E rc \in ResultCodes : CrashPublishReturns(rc)

CrashNext ==
    \/ RunTick
    \/ RunLogFrame
    \/ RunPush
    \/ RunNoCrash
    \/ RunCrashSleep
    \/ RunSleep
    \/ CrashStart
    \/ CrashLog
    \/ CrashNet
    \/ CrashPublish
    \/ CrashPublishRaises
    \/ CrashLoraSend
    \/ ClockSecond

----------------------------------------------------------------------------
\* the state after CrashDetectionUnit.__init__
----------------------------------------------------------------------------
\* security/encryption.py.  A byte is a number below 2^ByteBits, a key a number
\* in Keys.  Fernet is modelled by what it does to a token: a fresh IV, the
\* padded plaintext enciphered under the key and the IV, and a keyed MAC over
\* IV and ciphertext that decrypt verifies before it deciphers.

Bytes == 0..(Pow2(ByteBits) - 1)

Keys == 1..MaxKey

\* the payloads: every byte string of at most MaxPayloadLen bytes
Payloads == UNION {[1..n -> Bytes] : n \in 0..MaxPayloadLen}

\* the padding of the block cipher: n bytes of value n, n in 1..BlockSize, so
\* that the length is a multiple of BlockSize
Pkcs7Pad(data) ==
    LET n == BlockSize - (Len(data) % BlockSize)
    IN data \o [i \in 1..n |-> n]

\* an unpadding that always takes one byte off
Pkcs7UnpadOneByte(padded) ==
    IF Len(padded) = 0 THEN [ok |-> FALSE, bytes |-> << >>]
    ELSE [ok |-> TRUE, bytes |-> SubSeq(padded, 1, Len(padded) - 1)]

\* the padding taken off; not ok when the tail is no padding
Pkcs7Unpad(padded) ==
    IF Len(padded) = 0 THEN [ok |-> FALSE, bytes |-> << >>]
    ELSE LET n == padded[Len(padded)]
         IN IF /\ n \in 1..BlockSize
               /\ n <= Len(padded)
               /\ \A i \in (Len(padded) - n + 1)..Len(padded) : padded[i] = n
            THEN [ok |-> TRUE, bytes |-> SubSeq(padded, 1, Len(padded) - n)]
            ELSE [ok |-> FALSE, bytes |-> << >>]

\* the block cipher under key and iv, byte by byte
CipherEncrypt(key, iv, plain) ==
    [i \in 1..Len(plain) |-> (plain[i] + key + iv + i) % Pow2(ByteBits)]

CipherDecrypt(key, iv, cipher) ==
    [i \in 1..Len(cipher) |->
        (cipher[i] + Pow2(ByteBits) * (MaxKey + Len(cipher) + 2) - key - iv - i)
            % Pow2(ByteBits)]

RECURSIVE WeightedSum(_)
WeightedSum(q) ==
    IF Len(q) = 0 THEN 0
    ELSE Len(q) * q[Len(q)] + WeightedSum(SubSeq(q, 1, Len(q) - 1))

\* the MAC of a token body (IV and ciphertext) under the key: it differs for
\* any two keys and for any two bodies that differ in one byte, by more than a
\* flipped bit can make up for
Hmac(key, body) == Pow2(ByteBits) * (key + (MaxKey + 1) * WeightedSum(body))

\* Fernet(key).encrypt(data) with the IV drawn: the token IV | ciphertext | MAC
FernetEncrypt(key, iv, data) ==
    LET cipher == CipherEncrypt(key, iv, Pkcs7Pad(data))
    IN <<iv>> \o cipher \o <<Hmac(key, <<iv>> \o cipher)>>

\* Fernet(key).decrypt(token): InvalidToken unless the MAC is the one of the
\* body under the key and the deciphered text is padded
FernetDecrypt(key, token) ==
    IF Len(token) < 2 THEN [ok |-> FALSE, error |-> "InvalidToken", bytes |-> << >>]
    ELSE LET iv == token[1]
             cipher == SubSeq(token, 2, Len(token) - 1)
             plain == Pkcs7Unpad(CipherDecrypt(key, iv, cipher))
         IN IF token[Len(token)] # Hmac(key, <<iv>> \o cipher) \/ ~plain.ok
            THEN [ok |-> FALSE, error |-> "InvalidToken", bytes |-> << >>]
            ELSE [ok |-> TRUE, error |-> "none", bytes |-> plain.bytes]

\* base64.b64encode(...).decode('utf-8'): every number becomes two characters
B64Encode(bytes) ==
    [i \in 1..(2 * Len(bytes)) |->
        IF i % 2 = 1 THEN [char |-> bytes[(i + 1) \div 2] \div 2]
        ELSE [char |-> bytes[i \div 2] % 2]]

\* base64.b64decode(text.encode('utf-8')): binascii.Error on a text that is no
\* encoding
B64Decode(text) ==
    IF Len(text) % 2 # 0
    THEN [ok |-> FALSE, error |-> "binascii.Error", bytes |-> << >>]
    ELSE [ok |-> TRUE, error |-> "none",
          bytes |-> [i \in 1..(Len(text) \div 2) |->
                        2 * text[2 * i - 1].char + text[2 * i].char]]

\* no key file, in a directory the process can write to
AbsentKeyFile == [exists |-> FALSE, key |-> 0, writer |-> "none", writable |-> TRUE]

\* decrypt_data has returned nothing yet
NoResult == [returned |-> "nothing", bytes |-> << >>, raised |-> "none"]

NoCodecCall ==
    [payload |-> << >>, explicit |-> FALSE, encKey |-> 0, frame |-> << >>,
     tampered |-> FALSE, decKey |-> 0, result |-> NoResult, generated |-> FALSE]

CodecInit ==
    /\ codecPc = "start"
    /\ keyFile = AbsentKeyFile
    /\ manager = 0
    /\ codecCall = NoCodecCall

\* _load_or_generate_key: the key the new manager holds, the key file
\* afterwards and whether Fernet.generate_key was called, which returns gen.
\* A key file that exists is read; otherwise a key is generated and written to
\* the file, and when that raises the except branch generates a key that stays
\* in memory.
LoadOrGenerateKey(file, gen) ==
    IF file.exists THEN [key |-> file.key, file |-> file, generated |-> FALSE]
    ELSE IF file.writable
    THEN [key |-> gen, generated |-> TRUE,
          file |-> [exists |-> TRUE, key |-> gen, writer |-> "codec", writable |-> TRUE]]
    ELSE [key |-> gen, file |-> file, generated |-> TRUE]

\* the manager encrypt_data and decrypt_data work with (lines 107-110,
\* 131-134): a new EncryptionManager(key_file) when key_file is given, the
\* global one, made at its first use, otherwise.  global is the key of the
\* global manager afterwards.
GetManager(explicit, file, global, gen) ==
    IF ~explicit /\ global # 0
    THEN [key |-> global, file |-> file, generated |-> FALSE, global |-> global]
    ELSE LET m == LoadOrGenerateKey(file, gen)
         IN [key |-> m.key, file |-> m.file, generated |-> m.generated,
             global |-> IF explicit THEN global ELSE m.key]

\* encrypt_data(data) for bytes, under the manager's key: the text of the token
EncryptData(key, iv, data) == B64Encode(FernetEncrypt(key, iv, data))

\* decrypt_data(text) under the manager's key: the bytes, or None after any
\* exception (binascii.Error, InvalidToken), which is printed and not raised
DecryptData(key, text) ==
    LET raw == B64Decode(text)
        plain == FernetDecrypt(key, raw.bytes)
    IN IF raw.ok /\ plain.ok
       THEN [returned |-> "bytes", bytes |-> plain.bytes, raised |-> "none"]
       ELSE [returned |-> "None", bytes |-> << >>, raised |-> "none"]

\* the number x with its bit b flipped
FlipBit(x, b) == IF (x \div Pow2(b)) % 2 = 0 THEN x + Pow2(b) ELSE x - Pow2(b)

\* the operator provisions the key k before the program runs
ProvisionKey(k) ==
    /\ codecPc = "start"
    /\ keyFile' = [exists |-> TRUE, key |-> k, writer |-> "operator", writable |-> TRUE]
    /\ codecPc' = "ready"
    /\ UNCHANGED <<manager, codecCall, impactVars, pubVars, logVars, crashVars, runVars, detectCall>>

\* no key is provisioned and the key directory cannot be written to
ProtectKeyDir ==
    /\ codecPc = "start"
    /\ keyFile' = [keyFile EXCEPT !.writable = FALSE]
    /\ codecPc' = "ready"
    /\ UNCHANGED <<manager, codecCall, impactVars, pubVars, logVars, crashVars, runVars, detectCall>>

\* encrypt_data(data, key_file): explicit says whether key_file is given
EncryptDataCall(data, iv, explicit, gen) ==
    /\ codecPc \in {"start", "ready"}
    /\ LET m == GetManager(explicit, keyFile, manager, gen)
       IN /\ keyFile' = m.file
          /\ manager' = m.global
          /\ codecCall' = [codecCall EXCEPT !.payload = data, !.explicit = explicit,
                                            !.encKey = m.key,
                                            !.frame = EncryptData(m.key, iv, data),
                                            !.generated = m.generated]
    /\ codecPc' = "encoded"
    /\ UNCHANGED <<impactVars, pubVars, logVars, crashVars, runVars, detectCall>>

\* on its way the frame has bit b of byte i of its token flipped
TamperFrame(i, b) ==
    /\ codecPc = "encoded"
    /\ LET token == B64Decode(codecCall.frame).bytes
       IN /\ i \in 1..Len(token)
          /\ codecCall' = [codecCall EXCEPT
                              !.frame = B64Encode([token EXCEPT ![i] = FlipBit(@, b)]),
                              !.tampered = TRUE]
    /\ codecPc' = "tampered"
    /\ UNCHANGED <<keyFile, manager, impactVars, pubVars, logVars, crashVars, runVars, detectCall>>

\* decrypt_data(frame, key_file), with the key_file argument of the encrypt call
DecryptDataCall(gen) ==
    /\ codecPc \in {"encoded", "tampered"}
    /\ LET m == GetManager(codecCall.explicit, keyFile, manager, gen)
       IN /\ keyFile' = m.file
          /\ manager' = m.global
          /\ codecCall' = [codecCall EXCEPT !.decKey = m.key,
                                            !.result = DecryptData(m.key, codecCall.frame),
                                            !.generated = @ \/ m.generated]
    /\ codecPc' = "decoded"
    /\ UNCHANGED <<impactVars, pubVars, logVars, crashVars, runVars, detectCall>>

CodecProvision == \E k \in Keys : ProvisionKey(k)

\* the IVs os.urandom gives
IvValues == {0, 1}

CodecEncrypt ==
    \E data \in Payloads, iv \in IvValues, explicit \in BOOLEAN, gen \in Keys :
        EncryptDataCall(data, iv, explicit, gen)

\* a bit of the ciphertext or of the MAC: byte 1 of the token is the IV
CodecTamper ==
    \E i \in 2..(MaxPayloadLen + BlockSize + 2), b \in 0..(ByteBits - 1) : TamperFrame(i, b)

CodecDecrypt == \E gen \in Keys : DecryptDataCall(gen)

CodecNext ==
    \/ CodecProvision
    \/ ProtectKeyDir
    \/ CodecEncrypt
    \/ CodecTamper
    \/ CodecDecrypt

----------------------------------------------------------------------------
\* CrashDetectionUnit.detect_crash.  Magnitudes are whole m/s^2.

\* the literals of the severity logic (lines 156 and 158)
SeverityLowBelow == 15
SeverityMediumBelow == 25

\* a severity logic whose bands include their upper limits
SeverityInclusive(accel_mag) ==
    IF accel_mag <= SeverityLowBelow THEN "LOW"
    ELSE IF accel_mag <= SeverityMediumBelow THEN "MEDIUM"
    ELSE "HIGH"

\* lines 156-161
Severity(accel_mag) ==
    IF accel_mag < SeverityLowBelow THEN "LOW"
    ELSE IF accel_mag < SeverityMediumBelow THEN "MEDIUM"
    ELSE "HIGH"

\* detect_crash(sensor_data): (is_crash, severity, accel_mag), for a frame with
\* or without accelerometer data, its magnitude, and what detect_impact
\* returned for that magnitude.  None is "None" and the empty sequence.
DetectCrash(has_accel, accel_mag, impact_confirmed) ==
    IF ~has_accel \/ ~impact_confirmed
    THEN [is_crash |-> FALSE, severity |-> "None", accel_mag |-> << >>]
    ELSE [is_crash |-> TRUE, severity |-> Severity(accel_mag), accel_mag |-> <<accel_mag>>]

NoDetectCall ==
    [made |-> FALSE, has_accel |-> FALSE, accel_mag |-> 0, impact_confirmed |-> FALSE,
     result |-> [is_crash |-> FALSE, severity |-> "None", accel_mag |-> << >>]]

DetectInit == detectCall = NoDetectCall

\* one detect_crash call.  detect_impact confirms only a magnitude of at least
\* accel_threshold, and is not called for a frame without accelerometer data.
DetectCrashCall(has_accel, accel_mag, impact_confirmed) ==
    /\ impact_confirmed => (has_accel /\ accel_mag >= accel_threshold)
    /\ detectCall' = [made |-> TRUE, has_accel |-> has_accel, accel_mag |-> accel_mag,
                      impact_confirmed |-> impact_confirmed,
                      result |-> DetectCrash(has_accel, accel_mag, impact_confirmed)]
    /\ UNCHANGED <<impactVars, pubVars, logVars, crashVars, runVars, codecVars>>

SeverityNext ==
    \E has_accel \in BOOLEAN, accel_mag \in 0..MaxMagnitude, impact_confirmed \in BOOLEAN :
        DetectCrashCall(has_accel, accel_mag, impact_confirmed)

\* the sampling loop with a receiver that gains and loses its fix; storage and
\* network work
GpsNext ==
    \/ GpsTick
    \/ RunLog("ok")
    \/ RunPush
    \/ RunNoCrash
    \/ RunCrashSleep
    \/ RunSleep
    \/ HandleCrash(TRUE)
    \/ CrashLogCrash("ok", "ok")
    \/ CrashNetworkCheck(TRUE)
    \/ CrashPublishReturns(0)

\* the sampling loop with a shutdown signal arriving at any of its steps;
\* storage and network work
ShutdownNext ==
    \/ RunTick
    \/ RunLog("ok")
    \/ RunPush
    \/ RunNoCrash
    \/ RunCrashSleep
    \/ RunSleep
    \/ HandleCrash(TRUE)
    \/ CrashLogCrash("ok", "ok")
    \/ CrashNetworkCheck(TRUE)
    \/ CrashPublishReturns(0)
    \/ RunShutdown
    \/ RunCleanup

Init == ImpactInit /\ PublisherInit /\ LoggerInit /\ CrashInit /\ RunInit /\ CodecInit
        /\ DetectInit

SpecImpact == Init /\ [][ImpactNext]_vars

SpecWindow == Init /\ [][WindowNext]_vars

SpecFaulty == Init /\ [][FaultyNext]_vars

SpecPublisher == Init /\ [][PublisherNext]_vars

SpecCrash == Init /\ [][CrashNext]_vars

SpecLogger == Init /\ [][LoggerNext]_vars

SpecGps == Init /\ [][GpsNext]_vars

SpecShutdown == Init /\ [][ShutdownNext]_vars

SpecCodec == Init /\ [][CodecNext]_vars

SpecSeverity == Init /\ [][SeverityNext]_vars

SpecRetention == Init /\ [][RetentionNext]_vars

SpecAppendOnly == Init /\ [][AppendOnlyNext]_vars

----------------------------------------------------------------------------
\* Properties of the impact correlator (under SpecImpact)

\* C1: cooldown. A detect_impact call whose timestamp is less than
\* cooldown_time after an earlier confirmed impact returns False, whatever the
\* acceleration and the channels; any two confirmed impacts are at least
\* cooldown_time apart.
C1_Cooldown ==
    /\ lastCall.made =>
           \A t \in lastCall.prevConfirmed :
               lastCall.ts - t < cooldown_time => ~lastCall.result
    /\ \A t1, t2 \in confirmedTimes : t1 < t2 => t2 - t1 >= cooldown_time

\* a call one tick short of the end of the cooldown, above the threshold and
\* with an active channel, is rejected
C1_Witness ==
    /\ lastCall.made
    /\ lastCall.accel >= accel_threshold
    /\ \E p \in PinSet : lastCall.reads[p] = "HIGH"
    /\ \E t \in lastCall.prevConfirmed : lastCall.ts - t = cooldown_time - 1
    /\ ~lastCall.result

\* C2: correlation. A detect_impact call that is not inside the cooldown returns
\* True if and only if the acceleration is at least accel_threshold and the
\* trigger window, after this call's polling, holds a trigger whose timestamp
\* is within correlation_window of the call's timestamp.
C2_Correlation ==
    (lastCall.made /\ lastCall.ts - lastCall.prevImpact >= cooldown_time) =>
        (lastCall.result <=>
            /\ lastCall.accel >= accel_threshold
            /\ \E i \in DOMAIN sb420_triggers :
                   Abs(lastCall.ts - sb420_triggers[i][1]) <= correlation_window)

\* a call confirmed by a trigger of an earlier poll that is exactly
\* correlation_window old
C2_Witness ==
    /\ lastCall.made
    /\ lastCall.result
    /\ lastCall.polled = << >>
    /\ \A i \in DOMAIN sb420_triggers :
           Abs(lastCall.ts - sb420_triggers[i][1]) >= correlation_window

----------------------------------------------------------------------------
\* Properties of handle_crash (under SpecCrash)

CrashIdx(kind) == {i \in DOMAIN crashTrace : crashTrace[i].ev = kind}

PrimarySucceeded ==
    \E i \in CrashIdx("publish") : crashTrace[i].ok /\ crashTrace[i].rc = 0

\* C3: escalation to fallback. When handle_crash has ended, the fallback was
\* invoked exactly once if the primary delivery did not succeed (non-success
\* result code, exception, or no network) and not at all if it succeeded.
C3_Escalation ==
    crashPc = "done" =>
        Cardinality(CrashIdx("lora")) = (IF PrimarySucceeded THEN 0 ELSE 1)

\* C4 as claimed: the fallback is never used without a preceding primary
\* publish attempt for the crash.
C4_Original ==
    \A i \in CrashIdx("lora") : \E j \in CrashIdx("publish") : j < i

\* C4, amended: the fallback is used only after a primary publish attempt that
\* raised or after the network check found no network; when the network check
\* finds the network, the primary publish is attempted next, before any
\* fallback.
C4_PrimaryFirst ==
    /\ \A i \in CrashIdx("lora") :
           \/ \E j \in CrashIdx("publish") : j < i /\ ~crashTrace[j].ok
           \/ /\ CrashIdx("publish") = {}
              /\ \E j \in CrashIdx("net") : j < i /\ ~crashTrace[j].ok
    /\ \A i \in CrashIdx("net") :
           crashTrace[i].ok =>
               IF i < Len(crashTrace) THEN crashTrace[i + 1].ev = "publish"
               ELSE crashPc = "publish"

\* the network was found, the publish raised, the fallback was used
C4_Witness ==
    /\ crashPc = "done"
    /\ \E i \in CrashIdx("net") : crashTrace[i].ok
    /\ \E i \in CrashIdx("publish") : ~crashTrace[i].ok
    /\ CrashIdx("lora") # {}

CrashWritten == \E k \in DOMAIN crash_log : crash_log[k].id = nCrashes

\* C5 as claimed: no network attempt is made for a crash that has not been
\* written to the local log.
C5_Original ==
    \A i \in CrashIdx("net") \cup CrashIdx("publish") \cup CrashIdx("lora") :
        CrashWritten

\* C5, amended: log_crash has returned before the network check and before any
\* primary or fallback transport call for the crash, and the crash is then in
\* the crash-only log unless its append failed (log_crash swallows the failure).
C5_DurabilityFirst ==
    /\ \A i \in CrashIdx("net") \cup CrashIdx("publish") \cup CrashIdx("lora") :
           \E j \in CrashIdx("log_crash") : j < i
    /\ crashPc \in {"net", "publish", "lora"} => CrashIdx("log_crash") # {}
    /\ \A j \in CrashIdx("log_crash") : crashTrace[j].ok => CrashWritten

\* a crash that was written and then went to both transports
C5_Witness ==
    /\ crashPc = "done"
    /\ CrashWritten
    /\ CrashIdx("publish") # {}
    /\ CrashIdx("lora") # {}

----------------------------------------------------------------------------
\* Properties of safe_publish (under SpecPublisher)

PubIdx(kind) == {i \in DOMAIN pubTrace : pubTrace[i].ev = kind}

IsBackoff(e) == e.ev = "backoff"

\* every attempt of the call reached its publish and got a non-success code
EveryPublishFailed ==
    /\ pubPc = "done"
    /\ pubTrace # << >>
    /\ \A i \in PubIdx("publish") : pubTrace[i].ok /\ pubTrace[i].rc # 0
    /\ \A i \in PubIdx("reconnect") : pubTrace[i].ok

\* C6: publisher exhaustion. When every publish returns a non-success result
\* code, safe_publish makes exactly MAX_RETRIES publish attempts, one per
\* iteration, sleeps 1 s after the first and 2 s after the second
\* (BACKOFF_BASE_S * 2^(attempt-1)), does not sleep after the last, and
\* returns False.
C6_Exhaustion ==
    EveryPublishFailed =>
        /\ pubResult = "false"
        /\ Cardinality(PubIdx("publish")) = MAX_RETRIES
        /\ \A n \in 1..MAX_RETRIES : \E i \in PubIdx("publish") : pubTrace[i].n = n
        /\ LET b == SelectSeq(pubTrace, IsBackoff)
           IN /\ Len(b) = MAX_RETRIES - 1
              /\ \A k \in DOMAIN b :
                     /\ b[k].n = k
                     /\ b[k].secs = BACKOFF_BASE_S * (2 ^ (k - 1))
        /\ \A i \in PubIdx("backoff") :
               /\ pubTrace[i - 1].ev = "publish"
               /\ pubTrace[i - 1].n = pubTrace[i].n
               /\ pubTrace[i + 1].ev = "flag"
               /\ pubTrace[i + 1].n = pubTrace[i].n + 1
        /\ pubTrace[Len(pubTrace)].ev = "publish"

\* an exhausted call that also had to reconnect
C6_Witness ==
    /\ EveryPublishFailed
    /\ PubIdx("reconnect") # {}
    /\ Cardinality(PubIdx("publish")) = MAX_RETRIES

\* C7: publisher success path. The first result code 0 ends the call at once
\* with True; with the flag set at the first check and result code 0 from the
\* first publish, the call consists of that check and that one publish: no
\* reconnect, no sleep, no further attempt.  True is returned only so.
C7_SuccessPath ==
    /\ \A i \in PubIdx("publish") :
           (pubTrace[i].ok /\ pubTrace[i].rc = 0) =>
               /\ i = Len(pubTrace)
               /\ pubPc = "done"
               /\ pubResult = "true"
    /\ (/\ Len(pubTrace) >= 2
        /\ pubTrace[1].ev = "flag" /\ pubTrace[1].ok
        /\ pubTrace[2].ev = "publish" /\ pubTrace[2].ok /\ pubTrace[2].rc = 0) =>
           /\ Len(pubTrace) = 2
           /\ pubResult = "true"
    /\ pubResult = "true" =>
           /\ pubPc = "done"
           /\ pubTrace[Len(pubTrace)].ev = "publish"
           /\ pubTrace[Len(pubTrace)].rc = 0

\* the call that succeeded at once
C7_Witness ==
    /\ pubPc = "done"
    /\ pubResult = "true"
    /\ Len(pubTrace) = 2
    /\ pubTrace[1].ev = "flag" /\ pubTrace[1].ok

\* C8: delivery never raises. No exception leaves safe_publish, and when it has
\* ended it has returned True or False, whether serialisation failed, reconnect
\* raised or publish raised.
C8_NeverRaises ==
    /\ ~pubRaised
    /\ pubPc = "done" => pubResult \in {"true", "false"}

\* a call in which both a reconnect and a publish raised
C8_Witness ==
    /\ pubPc = "done"
    /\ \E i \in PubIdx("reconnect") : ~pubTrace[i].ok
    /\ \E i \in PubIdx("publish") : ~pubTrace[i].ok

\* C9 as claimed: in every attempt that read the flag as False, reconnect is
\* invoked (before anything else of the attempt).
C9_Original ==
    \A i \in PubIdx("flag") :
        (~pubTrace[i].ok /\ i + 2 <= Len(pubTrace)) => pubTrace[i + 2].ev = "reconnect"

\* C9, amended: in every attempt in which the flag is read False and
\* client.is_connected() then also returns False, reconnect is invoked; when it
\* returns, RECONNECT_WAIT_S is slept before the publish of that attempt; when
\* the flag is read True, or client.is_connected() returns True, the publish
\* follows with no reconnect.
C9_Reconnect ==
    /\ \A i \in PubIdx("client") :
           /\ pubTrace[i - 1].ev = "flag" /\ ~pubTrace[i - 1].ok
           /\ IF i < Len(pubTrace)
              THEN /\ pubTrace[i + 1].n = pubTrace[i].n
                   /\ pubTrace[i + 1].ev = (IF pubTrace[i].ok THEN "publish" ELSE "reconnect")
              ELSE pubPc = (IF pubTrace[i].ok THEN "publish" ELSE "reconnect")
    /\ \A i \in PubIdx("flag") :
           IF i < Len(pubTrace)
           THEN pubTrace[i + 1].ev = (IF pubTrace[i].ok THEN "publish" ELSE "client")
           ELSE pubPc = (IF pubTrace[i].ok THEN "publish" ELSE "checkClient")
    /\ \A i \in PubIdx("reconnect") :
           /\ pubTrace[i - 1].ev = "client" /\ ~pubTrace[i - 1].ok
           /\ pubTrace[i].ok =>
                  IF i < Len(pubTrace)
                  THEN /\ pubTrace[i + 1].ev = "settle"
                       /\ pubTrace[i + 1].secs = RECONNECT_WAIT_S
                  ELSE pubPc = "settle"
    /\ \A i \in PubIdx("settle") :
           IF i < Len(pubTrace)
           THEN pubTrace[i + 1].ev = "publish" /\ pubTrace[i + 1].n = pubTrace[i].n
           ELSE pubPc = "publish"

\* an attempt that reconnected, settled and published, after one that read the
\* flag False and published with no reconnect
C9_Witness ==
    /\ \E i \in PubIdx("client") :
           /\ ~pubTrace[i].ok
           /\ i + 3 <= Len(pubTrace)
           /\ pubTrace[i + 3].ev = "publish"
    /\ \E i \in PubIdx("client") : pubTrace[i].ok /\ i < Len(pubTrace)

\* C10: race-free connection flag. Whenever safe_publish issues the publish that
\* follows a check that read the flag True, the flag is still True.
C10_RaceFree ==
    \A i \in PubIdx("publish") :
        (pubTrace[i - 1].ev = "flag" /\ pubTrace[i - 1].ok) => pubTrace[i].flag


----------------------------------------------------------------------------
\* Properties of the fallback payload (under SpecCrash)

\* C11: encrypted fallback. Whatever handle_crash hands to the fallback radio
\* (lora_tx.send_payload) is the output of the secure frame codec
\* (encrypt_data), never the plaintext crash_payload.
C11_EncryptedFallback == loraHanded # "none" => loraHanded = "encrypt_data"


----------------------------------------------------------------------------
\* Properties of the debounce (under SpecImpact)

\* the triggers of channel idx among the triggers ts
OfChannel(ts, idx) == {i \in 1..Len(ts) : ts[i][2] = idx}

\* the last detect_impact call polled the channels and found the channel of pin
\* pins[k] active after a trigger of it had been accepted
PolledActive(k) ==
    /\ lastCall.made
    /\ ~lastCall.gate
    /\ gpio_initialized
    /\ lastCall.reads[pins[k]] = "HIGH"
    /\ lastCall.prevRead[pins[k]] > 0

\* C12: debounce spacing. Two triggers held for the same channel are never
\* less than debounce_time apart, and a channel found active less than
\* debounce_time after its previously accepted trigger is skipped: the poll
\* returns no trigger for it, its last accepted time stays, and the window
\* gains no entry for it.
C12_DebounceSpacing ==
    /\ \A i, j \in 1..Len(sb420_triggers) :
           (i < j /\ sb420_triggers[i][2] = sb420_triggers[j][2]) =>
               sb420_triggers[j][1] - sb420_triggers[i][1] >= debounce_time
    /\ \A k \in 1..Len(pins) :
           (PolledActive(k) /\ clock - lastCall.prevRead[pins[k]] < debounce_time) =>
               /\ OfChannel(lastCall.polled, k - 1) = {}
               /\ last_sb420_read_time[pins[k]] = lastCall.prevRead[pins[k]]
               /\ Cardinality(OfChannel(sb420_triggers, k - 1))
                      <= Cardinality(OfChannel(lastCall.prevWindow, k - 1))

\* a channel was found active inside its debounce interval, while the window
\* holds two triggers of one channel
C12_Witness ==
    /\ \E k \in 1..Len(pins) :
           PolledActive(k) /\ clock - lastCall.prevRead[pins[k]] < debounce_time
    /\ \E k \in 1..Len(pins) : Cardinality(OfChannel(sb420_triggers, k - 1)) >= 2


\* the last call found the channel of pins[k] active exactly debounce_time after
\* its previously accepted trigger
AtDebounceBoundary(k) ==
    PolledActive(k) /\ clock - lastCall.prevRead[pins[k]] = debounce_time

\* C13 as stated: debounce boundary. A channel active exactly debounce_time
\* (0.05 s: 10.010 s, then 10.060 s) after its previously accepted trigger is
\* not recorded as a new trigger.
C13_Original ==
    \A k \in 1..Len(pins) :
        AtDebounceBoundary(k) => OfChannel(lastCall.polled, k - 1) = {}

\* C13, amended: a channel polled and found active exactly debounce_time after
\* its previously accepted trigger is recorded as a new trigger: the poll
\* returns it with the time of the poll, that time becomes the channel's last
\* accepted time, and the window holds it. Only gaps shorter than
\* debounce_time are skipped.
C13_Boundary ==
    \A k \in 1..Len(pins) :
        AtDebounceBoundary(k) =>
            /\ \E i \in OfChannel(lastCall.polled, k - 1) : lastCall.polled[i][1] = clock
            /\ last_sb420_read_time[pins[k]] = clock
            /\ \E i \in OfChannel(sb420_triggers, k - 1) : sb420_triggers[i][1] = clock

\* a channel was found active exactly debounce_time after its accepted trigger
C13_Witness == \E k \in 1..Len(pins) : AtDebounceBoundary(k)


----------------------------------------------------------------------------
\* Properties of the trigger window (under SpecWindow)

\* the last n items of the sequence q, in order
LastItems(q, n) ==
    IF Len(q) <= n THEN q ELSE SubSeq(q, Len(q) - n + 1, Len(q))

\* C14: bounded trigger window. The window never holds more than
\* TriggerWindowMax (10) triggers; after a call that polled, it holds the most
\* recent TriggerWindowMax of the triggers it held before followed by the
\* triggers the poll accepted, in arrival order: an 11th trigger evicts the
\* oldest one.
C14_BoundedWindow ==
    /\ Len(sb420_triggers) <= TriggerWindowMax
    /\ (lastCall.made /\ ~lastCall.gate) =>
           sb420_triggers = LastItems(lastCall.prevWindow \o lastCall.polled,
                                      TriggerWindowMax)
    /\ (lastCall.made /\ lastCall.gate) => sb420_triggers = lastCall.prevWindow

\* a trigger was accepted while the window was full, and the oldest one went
C14_Witness ==
    /\ lastCall.made
    /\ Len(lastCall.prevWindow) = TriggerWindowMax
    /\ Len(lastCall.polled) >= 1
    /\ sb420_triggers[1] # lastCall.prevWindow[1]
    /\ sb420_triggers[1] = lastCall.prevWindow[Len(lastCall.polled) + 1]


----------------------------------------------------------------------------
\* Properties of the poll on failing hardware (under SpecFaulty)

\* in the last detect_impact call GPIO.input raised on the channel of pins[k]:
\* the poll got to that pin (no earlier pin raised) and did not skip it
ReadRaised(k) ==
    /\ lastCall.made
    /\ ~lastCall.gate
    /\ gpio_initialized
    /\ lastCall.reads[pins[k]] = "ERR"
    /\ ~Debounced(clock, lastCall.prevRead[pins[k]])
    /\ \A j \in 1..(k - 1) :
           lastCall.reads[pins[j]] = "ERR" =>
               Debounced(clock, lastCall.prevRead[pins[j]])

\* C15: the correlator never raises on a hardware failure. No detect_impact
\* call raises and each returns a boolean; a channel whose read raised counts
\* as not triggered: the poll returns no trigger for it and its last accepted
\* time stays.
C15_NeverRaises ==
    /\ lastCall.made => (~lastCall.raised /\ lastCall.result \in BOOLEAN)
    /\ \A k \in 1..Len(pins) :
           ReadRaised(k) =>
               /\ OfChannel(lastCall.polled, k - 1) = {}
               /\ last_sb420_read_time[pins[k]] = lastCall.prevRead[pins[k]]

\* a read raised in a call that nevertheless confirmed an impact
C15_Witness == lastCall.made /\ lastCall.result /\ \E k \in 1..Len(pins) : ReadRaised(k)


----------------------------------------------------------------------------
\* Properties of the pre-crash buffer (under SpecCrash)

\* the most recent Min(n, buffer_size) of the frames 1..n, in push order
RecentFrames(n) ==
    LET k == IF n < buffer_size THEN n ELSE buffer_size
    IN [i \in 1..k |-> n - k + i]

\* the frames pushed so far: the frame of the running tick counts once line
\* 218 has pushed it
Pushes == IF runPc \in {"log", "push"} THEN nSamples - 1 ELSE nSamples

\* C16: the pre-crash buffer never holds more than its capacity, fixed at
\* construction (buffer_size = PRE_CRASH_DURATION * SAMPLE_RATE), and after n
\* pushes it holds the most recent Min(n, buffer_size) frames in push order
\* (capacity 500: 501 pushes leave frames 2..501).
C16_PreCrashBuffer ==
    /\ Len(data_buffer) <= buffer_size
    /\ data_buffer = RecentFrames(Pushes)

\* one frame more than the capacity was pushed: frame 1 is gone, 2.. remain
C16_Witness ==
    /\ nSamples = buffer_size + 1
    /\ Len(data_buffer) = buffer_size
    /\ data_buffer[1] = 2
    /\ data_buffer[buffer_size] = buffer_size + 1

\* C17: the pre_crash_buffer of a crash payload is a copy taken when the crash
\* was confirmed: whatever is pushed or evicted afterwards, the payload shows
\* the frames the buffer held at the tick of its crash frame.
C17_SnapshotCopy ==
    crash_payload.built =>
        Contents(crash_payload.pre_crash_buffer) = RecentFrames(crash_payload.crash_data)

\* after a payload was built, later pushes evicted its oldest frame from the
\* buffer
C17_Witness ==
    /\ crash_payload.built
    /\ nSamples > crash_payload.crash_data
    /\ Len(data_buffer) = buffer_size
    /\ data_buffer[1] > RecentFrames(crash_payload.crash_data)[1]


----------------------------------------------------------------------------
\* Properties of the blackbox logger (under SpecLogger)

\* the records of the sequence q
Records(q) == {q[i] : i \in 1..Len(q)}

\* the records that complete archives hold
Archived == UNION {Records(a.recs) : a \in {b \in archives : b.complete}}

\* the general log as the last call left it right after its append
AfterAppend ==
    IF logCall.appended THEN Append(logCall.before.recs, GeneralRecord(logCall))
    ELSE logCall.before.recs

\* a log or log_crash call has returned
Returned == logCall.made /\ logPc = "idle"


\* the record the last log_crash call writes to the crash-only log
CrashEvent == [kind |-> "crash_event", id |-> logCall.id]

\* no append, compression or removal of the last call failed
NoIoError == logCall.failed = "none" /\ logCall.rotated \in {"no", "done"}

\* C18 as stated: crash double-logging. After log_crash returns the crash is
\* present in the crash-only log and in the general active log (read here of
\* the calls in which no file operation fails).
C18_Original ==
    (Returned /\ logCall.op = "log_crash" /\ NoIoError) =>
        /\ CrashEvent \in Records(crash_log)
        /\ GeneralRecord(logCall) \in Records(current_log.recs)

\* C18, amended: log_crash appends the crash to the crash-only log and then,
\* if that append succeeded, to the general active log as a record of kind
\* crash. After it returns the crash is the last record of the crash-only log
\* unless that append failed (then nothing was written at all), and it is in
\* the general log unless one of the two appends failed: in the active log,
\* or, when the rotation that this append triggered removed the active log,
\* in the complete archive that rotation wrote.
C18_DoubleLog ==
    (Returned /\ logCall.op = "log_crash") =>
        /\ logCall.failed # "crash_append" =>
               crash_log = Append(logCall.crashBefore, CrashEvent)
        /\ logCall.failed = "crash_append" =>
               /\ crash_log = logCall.crashBefore
               /\ current_log = logCall.before
               /\ archives = logCall.archBefore
        /\ logCall.failed = "append" =>
               GeneralRecord(logCall) \notin Records(current_log.recs) \cup Archived
        /\ (logCall.failed = "none" /\ logCall.rotated # "done") =>
               GeneralRecord(logCall) \in Records(current_log.recs)
        /\ (logCall.failed = "none" /\ logCall.rotated = "done") =>
               /\ ~current_log.exists
               /\ \E a \in archives :
                      /\ a.name = logCall.name
                      /\ a.complete
                      /\ GeneralRecord(logCall) \in Records(a.recs)

\* a log_crash returned with the crash in the crash-only log and in an
\* archive, the active log being gone
C18_Witness ==
    /\ Returned
    /\ logCall.op = "log_crash"
    /\ logCall.failed = "none"
    /\ logCall.rotated = "done"
    /\ CrashEvent \in Records(crash_log)


\* the archive that the rotation of the last call wrote
RotationArchive == {a \in archives : a.name = logCall.name}

\* C19 as stated: rotation. The append that finds the active log grown past
\* the maximum archives the pre-append content, and afterwards the active log
\* holds only what was appended since.
C19_Original ==
    (Returned /\ logCall.rotated = "done") =>
        /\ \A a \in RotationArchive : a.recs = logCall.before.recs
        /\ Records(current_log.recs) \subseteq {GeneralRecord(logCall)}

\* C19, amended: the rotation check runs in the log call itself, right after
\* its append. While the active log stays below max_size_bytes it just gains
\* the record; as soon as an append brings it to max_size_bytes or more, the
\* same call archives the whole active log, the record just appended included,
\* into a compressed archive named by the time of the check, and then removes
\* the active log, so that the active log afterwards holds only records
\* appended since that rotation.
C19_Rotation ==
    (Returned /\ logCall.appended) =>
        /\ Len(AfterAppend) < max_size_bytes =>
               /\ logCall.rotated = "no"
               /\ current_log = [exists |-> TRUE, recs |-> AfterAppend]
               /\ archives = logCall.archBefore
        /\ Len(AfterAppend) >= max_size_bytes => logCall.rotated # "no"
        /\ logCall.rotated = "done" =>
               /\ current_log = AbsentFile
               /\ logCall.name <= logSecond
               /\ RotationArchive # {}
               /\ \A a \in RotationArchive : a.complete /\ a.recs = AfterAppend

\* an append brought the active log to exactly max_size_bytes and the call
\* rotated it
C19_Witness ==
    /\ Returned
    /\ logCall.rotated = "done"
    /\ logCall.before.exists
    /\ Len(AfterAppend) = max_size_bytes


\* C20: rotation atomicity. The archive is written first and the original is
\* removed afterwards: in every state of a log call, while it rotates and when
\* compression or removal failed included, each record of the active log (as
\* the call found it, plus the record it appended) is in the active log or in
\* a complete archive.
C20_ArchiveThenRemove ==
    logCall.made =>
        \A r \in Records(AfterAppend) :
            r \in Records(current_log.recs) \/ r \in Archived

\* compression failed part-way: the archive of the rotation is incomplete and
\* the call has returned
C20_Witness ==
    /\ Returned
    /\ logCall.rotated = "compress_failed"
    /\ \E a \in RotationArchive : ~a.complete
    /\ current_log.exists


----------------------------------------------------------------------------
\* Properties of the retention of archives (under SpecRetention)

\* the names of the archive files when the pruning of the last call began
NamesBeforePruning == {a.name : a \in logCall.archBefore} \cup {logCall.name}

\* the names of the archive files now
NamesKept == {a.name : a \in archives}

\* a rotation of the last call went through, its pruning included
RotationSucceeded ==
    Returned /\ logCall.rotated = "done" /\ logCall.cleanup = "done"

\* C21: retention. After a successful rotation at most rotation_count archive
\* files remain, and they are the newest by name: of the files present when
\* the pruning began, exactly those beyond the rotation_count newest are gone
\* (retention count 5 and 7 archives: the 2 oldest are deleted).
C21_Retention ==
    RotationSucceeded =>
        /\ Cardinality(archives) <= rotation_count
        /\ NamesKept \subseteq NamesBeforePruning
        /\ Cardinality(NamesKept) =
               (IF Cardinality(NamesBeforePruning) < rotation_count
                THEN Cardinality(NamesBeforePruning) ELSE rotation_count)
        /\ \A k \in NamesKept : \A d \in NamesBeforePruning \ NamesKept : d < k

\* two archives more than the retention count were present, and the pruning
\* deleted exactly the two oldest
C21_Witness ==
    /\ RotationSucceeded
    /\ Cardinality(NamesBeforePruning) = rotation_count + 2
    /\ Cardinality(archives) = rotation_count

\* the running tick has made its blackbox.log call
TickLogged == Len(tickTrace) >= 2

\* the running handle_crash has made its blackbox.log_crash call
CrashLogged == Len(crashTrace) >= 1 /\ crashTrace[1].ev = "log_crash"

\* C22: logging never stops sampling. Neither log nor log_crash lets an
\* exception out, whatever fails inside (unserialisable payload, failed append,
\* failed compression, failed pruning): after the log call of a tick the loop
\* is at one of its later steps, and after log_crash handle_crash goes on to
\* delivery.
C22_LoggingNeverStopsSampling ==
    /\ runPc # "died"
    /\ crashPc # "raised"
    /\ TickLogged => runPc \in {"push", "detect", "handle", "sleep", "tick"}
    /\ CrashLogged => crashPc \in {"net", "publish", "lora", "done"}

\* the sensor frame of the tick could not be appended, the tick went on to a
\* crash, whose crash-only append failed too, and handle_crash is at delivery
C22_Witness ==
    /\ tickFail = "append"
    /\ runPc = "handle"
    /\ CrashLogged
    /\ ~crashTrace[1].ok
    /\ crashPc = "net"

\* the call failed to append or failed to rotate
StorageFailed ==
    \/ logCall.failed # "none"
    \/ logCall.rotated \in {"compress_failed", "remove_failed"}

\* C23: storage failure counter. Every failed append or failed rotation of
\* the durable log is visible to the caller: what the caller can read from the
\* logger after a failed call differs from what it could read before the call
\* (a failure counter went up).
C23_FailureCounter ==
    (Returned /\ StorageFailed) => CallerView(logCall) # CallerView(NoLogCall)

\* the ticks up to tick n at which get_position returned a valid fix
ValidFixes(n) == {i \in 1..n : frameGps[i].raw.fix_quality > 0}

\* the latest of them
LastValidFix(n) == CHOOSE i \in ValidFixes(n) : \A j \in ValidFixes(n) : j <= i

\* C24: location caching. Once read_all_sensors has seen a valid fix
\* (fix_quality > 0), the gps entry of every later frame is non-null and is the
\* most recent valid fix; a crash package built on such a frame has a location,
\* the position of that fix.
C24_LocationCaching ==
    /\ \A n \in 1..Len(frameGps) :
           ValidFixes(n) # {} =>
               /\ frameGps[n].gps.set
               /\ frameGps[n].gps.fix_quality = frameGps[LastValidFix(n)].raw.fix_quality
               /\ frameGps[n].gps.position = frameGps[LastValidFix(n)].raw.position
    /\ (crash_payload.built /\ ValidFixes(crash_payload.crash_data) # {}) =>
           /\ crash_payload.location.set
           /\ crash_payload.location.position =
                  frameGps[LastValidFix(crash_payload.crash_data)].raw.position

\* a crash package built on a frame whose own reading had no fix, two ticks
\* after the last valid fix, carries the position of that fix
C24_Witness ==
    /\ crash_payload.built
    /\ crash_payload.crash_data >= 3
    /\ frameGps[crash_payload.crash_data].raw.fix_quality = 0
    /\ frameGps[crash_payload.crash_data - 1].raw.fix_quality = 0
    /\ frameGps[crash_payload.crash_data - 2].raw.fix_quality > 0
    /\ crash_payload.location.set
    /\ crash_payload.location.position = frameGps[crash_payload.crash_data - 2].raw.position

\* the sequence s is an initial part of the sequence t
IsPrefix(s, t) == Len(s) <= Len(t) /\ \A i \in 1..Len(s) : s[i] = t[i]

\* the frame of the running tick is in the durable log
FrameLogged ==
    [kind |-> "sensor", id |-> nSamples] \in Records(current_log.recs) \cup Archived

\* the frame of the running tick is in the pre-event buffer
FramePushed == nSamples \in Records(data_buffer)

\* a crash package exists for the frame of the running tick
FramePackaged == crash_payload.built /\ crash_payload.crash_data = nSamples

\* C25 as stated: every tick runs read, push to the pre-event buffer, append
\* to the durable log, correlator, and on confirmation package and delivery,
\* in that order.
C25_Original ==
    IsPrefix(tickTrace, <<"read", "push", "log", "detect", "handle">>)

\* C25, amended: every tick runs read, append to the durable log, push to the
\* pre-event buffer, correlator, and only on confirmation package and
\* delivery, in that order: a frame is in the buffer only after its log call,
\* and a package for it exists only after it was logged, pushed and confirmed.
C25_TickOrder ==
    /\ IsPrefix(tickTrace, <<"read", "log", "push", "detect", "handle">>)
    /\ (nSamples > 0 /\ FramePushed) => Len(tickTrace) >= 3
    /\ runPc = "push" => (~FramePushed /\ (tickFail = "ok" => FrameLogged))
    /\ runPc = "detect" => FramePushed
    /\ (nSamples > 0 /\ FramePackaged) =>
           /\ tickTrace = <<"read", "log", "push", "detect", "handle">>
           /\ crash_payload.pre_crash_buffer.items[Len(crash_payload.pre_crash_buffer.items)]
                  = nSamples
    /\ crashPc \notin {"idle", "done"} => (runPc = "handle" /\ FramePackaged)

\* the frame is in the durable log and not yet in the buffer
C25_Witness == runPc = "push" /\ FrameLogged /\ ~FramePushed /\ nSamples >= 2

\* the process is gone
ProcessEnded == runPc \in {"exited", "killed"}

\* C26: shutdown. A shutdown signal arriving at any point of the loop (while
\* sampling, in a sleep of delivery or in the post-crash sleep) leads to
\* cleanup, which closes the durable log before the process exits: the process
\* never ends on a signal without cleanup having closed the log.
C26_Shutdown == ProcessEnded => blackboxClosed

\* what holds of the interrupt signal alone: a process that SIGINT ended has
\* run cleanup and closed the log, wherever in the tick the signal arrived
C26_InterruptCleansUp ==
    (ProcessEnded /\ tickTrace[Len(tickTrace)] = "SIGINT") => blackboxClosed

\* decrypt_data has returned for a frame that nobody touched, and worked with
\* the key encrypt_data worked with
RoundTrip ==
    /\ codecPc = "decoded"
    /\ ~codecCall.tampered
    /\ codecCall.encKey = codecCall.decKey

TamperedDecoded == codecPc = "decoded" /\ codecCall.tampered

\* C28: codec tamper detection. Decoding a frame with any single bit of its
\* ciphertext or MAC flipped fails with an authentication error that reaches
\* the caller as a typed error; altered plaintext is never returned.
C28_TamperDetection ==
    TamperedDecoded =>
        /\ codecCall.result.returned # "bytes"
        /\ codecCall.result.raised = "InvalidToken"

\* what holds of a tampered frame: decrypt_data returns None, never bytes
C28_NoAlteredPlaintext ==
    TamperedDecoded => codecCall.result.returned = "None"

\* C29: key provisioning. The codec only uses a key supplied from outside: in
\* no execution does it generate a key itself or write a key to persistent
\* storage.
C29_KeyProvisioning ==
    /\ ~codecCall.generated
    /\ keyFile.writer # "codec"
    /\ codecCall.encKey # 0 => (keyFile.writer = "operator" /\ codecCall.encKey = keyFile.key)

\* C30: severity bands. A confirmed crash is LOW when the acceleration
\* magnitude is below 15 m/s^2, MEDIUM from 15 up to but not including 25, HIGH
\* from 25 on; detect_crash reports a crash exactly when the correlator
\* confirmed the impact, and gives no severity otherwise.
C30_SeverityBands ==
    detectCall.made =>
        /\ detectCall.result.is_crash <=> detectCall.impact_confirmed
        /\ detectCall.result.is_crash =>
               /\ detectCall.result.accel_mag = <<detectCall.accel_mag>>
               /\ detectCall.result.severity = "LOW" <=> detectCall.accel_mag < 15
               /\ detectCall.result.severity = "MEDIUM" <=>
                      (15 <= detectCall.accel_mag /\ detectCall.accel_mag < 25)
               /\ detectCall.result.severity = "HIGH" <=> detectCall.accel_mag >= 25
        /\ ~detectCall.result.is_crash =>
               (detectCall.result.severity = "None" /\ detectCall.result.accel_mag = << >>)

\* a confirmed crash at exactly 25 m/s^2 is HIGH
C30_Witness ==
    /\ detectCall.made
    /\ detectCall.result.is_crash
    /\ detectCall.accel_mag = 25
    /\ detectCall.result.severity = "HIGH"

----------------------------------------------------------------------------
\* Further properties of the impact correlator

\* the last call was turned away by the cooldown gate
GateRejected == lastCall.made /\ lastCall.gate

\* C31: cooldown gate frame. A detect_impact call rejected by the cooldown gate
\* returns False without polling the channels: the trigger window, the
\* per-channel debounce timestamps and the last-confirmed time are what they
\* were before the call, whatever the channels show.
C31_CooldownFrame ==
    GateRejected =>
        /\ ~lastCall.result
        /\ lastCall.polled = << >>
        /\ sb420_triggers = lastCall.prevWindow
        /\ last_sb420_read_time = lastCall.prevRead
        /\ last_impact_time = lastCall.prevImpact
        /\ confirmedTimes = lastCall.prevConfirmed

\* a rejected call during which an initialised channel was HIGH and past its
\* debounce: a poll would have recorded it
C31_Witness ==
    /\ GateRejected
    /\ gpio_initialized
    /\ \E p \in PinSet :
           /\ lastCall.reads[p] = "HIGH"
           /\ ~Debounced(clock, lastCall.prevRead[p])

\* C32: trigger clock. Every trigger accepted during detect_impact(m, now) is
\* stamped with that call's now, and the debounce timestamp of its channel is
\* set to that same now: the poll uses the time value the caller passed.
C32_TriggerClock ==
    (lastCall.made /\ ~lastCall.gate) =>
        /\ \A i \in 1..Len(lastCall.polled) : lastCall.polled[i][1] = lastCall.ts
        /\ \A p \in PinSet :
               last_sb420_read_time[p] # lastCall.prevRead[p] =>
                   last_sb420_read_time[p] = lastCall.ts

\* channel idx (counted from 1) was active and past its debounce when the
\* last call polled
ActiveAtPoll(idx) ==
    /\ lastCall.reads[pins[idx]] = "HIGH"
    /\ ~Debounced(clock, lastCall.prevRead[pins[idx]])

\* C33: channel failure isolation. When reading one channel fails during a
\* poll, only that channel counts as not triggered: every other channel that is
\* active and not debounced in that poll, before or after the failing one, is
\* recorded as a trigger.
C33_FailureIsolation ==
    (lastCall.made /\ ~lastCall.gate /\ gpio_initialized) =>
        \A idx \in 1..Len(pins) :
            ActiveAtPoll(idx) =>
                \E i \in 1..Len(lastCall.polled) : lastCall.polled[i][2] = idx - 1

----------------------------------------------------------------------------
\* Further properties of safe_publish (under SpecPublisher)

\* the reconnect calls of the running safe_publish call that raised
FailedReconnects == {i \in PubIdx("reconnect") : ~pubTrace[i].ok}

\* C34: reconnect failure path. When reconnect raises in an attempt, that
\* attempt issues no publish and counts toward the maximum; before the last
\* attempt the next thing is a backoff of base * 2^(attempt-1) seconds, after
\* the last attempt there is no backoff and safe_publish returns False. When
\* reconnect fails in every attempt, safe_publish returns False after
\* MAX_RETRIES attempts without any publish.
C34_ReconnectFailure ==
    /\ \A i \in FailedReconnects :
           LET n == pubTrace[i].n IN
           /\ n \in 1..MAX_RETRIES
           /\ \A j \in PubIdx("publish") : pubTrace[j].n # n
           /\ n < MAX_RETRIES =>
                  IF i = Len(pubTrace) THEN pubPc = "backoff"
                  ELSE /\ pubTrace[i + 1].ev = "backoff"
                       /\ pubTrace[i + 1].n = n
                       /\ pubTrace[i + 1].secs = BACKOFF_BASE_S * (2 ^ (n - 1))
           /\ n = MAX_RETRIES =>
                  (i = Len(pubTrace) /\ pubPc = "done" /\ pubResult = "false")
    /\ Cardinality(FailedReconnects) = MAX_RETRIES =>
           /\ pubPc = "done"
           /\ pubResult = "false"
           /\ PubIdx("publish") = {}
           /\ Cardinality(PubIdx("backoff")) = MAX_RETRIES - 1

\* reconnect raised in every attempt and safe_publish gave up
C34_Witness ==
    /\ Cardinality(FailedReconnects) = MAX_RETRIES
    /\ pubPc = "done"
    /\ pubResult = "false"

\* the seconds the running safe_publish call has slept so far
RECURSIVE SleptSeconds(_)
SleptSeconds(n) == IF n = 0 THEN 0 ELSE pubTrace[n].secs + SleptSeconds(n - 1)

\* MAX_RETRIES settle intervals and the backoffs between the attempts
SleepCeiling ==
    MAX_RETRIES * RECONNECT_WAIT_S + BACKOFF_BASE_S * (2 ^ (MAX_RETRIES - 1) - 1)

\* C35: bounded delivery. Whatever the result codes, exceptions and callbacks,
\* a safe_publish call makes at most MAX_RETRIES attempts, each of at most six
\* steps (two connection checks, reconnect, settle, publish, backoff), and has
\* slept at most MAX_RETRIES settle intervals plus the backoffs between
\* attempts (9 s with the defaults); after the last attempt it has returned.
C35_BoundedDelivery ==
    /\ attempt <= MAX_RETRIES
    /\ Len(pubTrace) <= 6 * MAX_RETRIES - 1
    /\ \A i \in DOMAIN pubTrace : pubTrace[i].n \in 1..MAX_RETRIES
    /\ Cardinality(PubIdx("settle")) <= MAX_RETRIES
    /\ Cardinality(PubIdx("backoff")) <= MAX_RETRIES - 1
    /\ SleptSeconds(Len(pubTrace)) <= SleepCeiling
    /\ SleepCeiling = 9
    /\ pubPc = "done" => pubResult \in {"true", "false"}

\* a call that took every sleep there is: three settles and two backoffs
C35_Witness ==
    /\ pubPc = "done"
    /\ pubResult = "false"
    /\ attempt = MAX_RETRIES
    /\ SleptSeconds(Len(pubTrace)) = SleepCeiling

\* a step of safe_publish itself: it moves the call on or adds to its trace,
\* which no callback does
PublisherStep == pubPc' # pubPc \/ pubTrace' # pubTrace

\* the running or finished call got result code 0 from one of its publishes
OwnPublishAccepted ==
    \E i \in PubIdx("publish") : pubTrace[i].ok /\ pubTrace[i].rc = 0

\* C37: success is never spurious under callback interleaving. However
\* on_connect and on_disconnect interleave with a running safe_publish, it
\* returns True only if one of its own publish calls returned result code 0, it
\* issues at most MAX_RETRIES publish calls and at most MAX_RETRIES reconnect
\* calls, and no step of it writes the connected flag.
C37_NoSpuriousSuccess ==
    /\ [](/\ pubResult = "true" => OwnPublishAccepted
          /\ Cardinality(PubIdx("publish")) <= MAX_RETRIES
          /\ Cardinality(PubIdx("reconnect")) <= MAX_RETRIES)
    /\ [][PublisherStep => connected' = connected]_vars

\* a call that returned True although the flag read True at its check and
\* on_disconnect had cleared it by the time of the publish
C37_Witness ==
    /\ pubResult = "true"
    /\ ~connected
    /\ \E i \in PubIdx("publish") :
           /\ pubTrace[i].rc = 0
           /\ ~pubTrace[i].flag
           /\ \E j \in PubIdx("flag") : pubTrace[j].n = pubTrace[i].n /\ pubTrace[j].ok

----------------------------------------------------------------------------
\* One package per confirmation (under SpecCrash)

\* the records of the crash-only log written for handle_crash call n
CrashRecords(n) == {k \in DOMAIN crash_log : crash_log[k].id = n}

\* the log_crash call of handle_crash call n is back
LogCrashReturned(n) == n < nCrashes \/ crashPc # "log"

\* the running tick has entered handle_crash
TickConfirmed == \E i \in DOMAIN tickTrace : tickTrace[i] = "handle"

\* C36 as stated: exactly one package per confirmation. Each confirming tick
\* makes one handle_crash call, which appends exactly one record for that crash
\* to the crash-only log.
C36_Original ==
    \A n \in 1..nCrashes : LogCrashReturned(n) => Cardinality(CrashRecords(n)) = 1

\* C36, amended: each confirming tick makes one handle_crash call, which
\* appends exactly one record for that crash to the crash-only log unless the
\* serialisation or the append failed (then none), and makes at most one
\* network check, one primary publish and one fallback send; a tick whose
\* detection returned false builds no package, writes no crash record and
\* contacts no transport.
C36_OnePackage ==
    /\ nCrashes <= nSamples
    /\ \A k \in DOMAIN crash_log : crash_log[k].id \in 1..nCrashes
    /\ \A n \in 1..nCrashes : Cardinality(CrashRecords(n)) <= 1
    /\ crashPc = "log" => CrashRecords(nCrashes) = {}
    /\ CrashLogged =>
           Cardinality(CrashRecords(nCrashes)) = (IF crashTrace[1].ok THEN 1 ELSE 0)
    /\ \A i \in DOMAIN crashTrace : crashTrace[i].n = nCrashes
    /\ \A kind \in {"log_crash", "net", "publish", "lora"} :
           Cardinality(CrashIdx(kind)) <= 1
    /\ Cardinality({i \in DOMAIN tickTrace : tickTrace[i] = "handle"}) <= 1
    /\ nSamples > 0 => (TickConfirmed <=> FramePackaged)
    /\ ~TickConfirmed => crashPc \in {"idle", "done"}
    /\ (crash_payload.built /\ crashPc # "idle") => crash_payload.id = nCrashes

\* two confirming ticks, one record each, and a later tick that confirmed
\* nothing and left both records and the last package as they were
C36_Witness ==
    /\ nCrashes = 2
    /\ Cardinality(CrashRecords(1)) = 1
    /\ Cardinality(CrashRecords(2)) = 1
    /\ runPc = "sleep"
    /\ ~TickConfirmed
    /\ Len(tickTrace) = 4
    /\ crash_payload.crash_data < nSamples

----------------------------------------------------------------------------
\* No record lost by rotation (under SpecLogger)

\* the complete archives that were on disk when the last call began
ArchivesBefore == {a \in logCall.archBefore : a.complete}

\* C38: no record is lost by rotation. Every record that a complete archive
\* held when a log call began is still readable, in a complete archive or in
\* the active log, unless the pruning deleted the archive file of that name;
\* every record of the active log is in the active log or in a complete
\* archive; two rotations in the same second do not overwrite each other's
\* archive.
C38_NoRecordLost ==
    logCall.made =>
        /\ \A r \in Records(AfterAppend) :
               r \in Records(current_log.recs) \/ r \in Archived
        /\ \A a \in ArchivesBefore :
               a.name \in NamesKept =>
                   Records(a.recs) \subseteq (Archived \cup Records(current_log.recs))

----------------------------------------------------------------------------
\* Bounded active log (under SpecLogger)

\* C39: bounded active log. After every log call whose append and rotation
\* completed without an I/O error the active general log is absent or smaller
\* than max_size_bytes, whatever earlier calls left behind; the rotation check
\* runs after each append and rotates exactly when the size is at least the
\* maximum.
C39_BoundedActiveLog ==
    (Returned /\ NoIoError) =>
        /\ logCall.appended
        /\ ~current_log.exists \/ GetLogSize(current_log) < max_size_bytes
        /\ logCall.rotated = "done" <=> Len(AfterAppend) >= max_size_bytes
        /\ logCall.rotated = "no" => current_log.recs = AfterAppend

\* an earlier rotation could not remove the active log and left it at the
\* maximum; the next call appended to it, rotated it and left no active log
C39_Witness ==
    /\ Returned
    /\ NoIoError
    /\ GetLogSize(logCall.before) >= max_size_bytes
    /\ logCall.rotated = "done"
    /\ current_log = AbsentFile

----------------------------------------------------------------------------
\* The crash-only log (under SpecAppendOnly)

\* C40: the crash-only log is append-only. No step of log, log_crash, rotation
\* or pruning removes, truncates or archives a record of the crash-only log:
\* every step leaves the records it held in place, in order, so their number
\* never decreases; the log holds crash events only, and no archive holds one.
C40_CrashLogAppendOnly ==
    /\ [](/\ \A k \in DOMAIN crash_log : crash_log[k].kind = "crash_event"
          /\ \A a \in archives : \A k \in DOMAIN a.recs : a.recs[k].kind # "crash_event"
          /\ logCall.made => IsPrefix(logCall.crashBefore, crash_log))
    /\ [][IsPrefix(crash_log, crash_log')]_vars

\* a rotation pruned an old archive while the crash-only log held two crash
\* events, and both are still there
C40_Witness ==
    /\ RotationSucceeded
    /\ Cardinality(NamesBeforePruning) > rotation_count
    /\ Cardinality(archives) = rotation_count
    /\ Len(crash_log) >= 2
    /\ \E a \in logCall.archBefore \ archives : \E k \in DOMAIN a.recs : a.recs[k].kind = "crash"

====
